---- MODULE Spec2Model ----
(***************************************************************************)
(* State-machine model of the WatchTogether server (socket.io event        *)
(* handlers of the server entry point and the mediasoup control plane).    *)
(*                                                                         *)
(* Time is in milliseconds and advances in steps of one second; playback   *)
(* positions are in seconds, as in the Room fields currentTime and         *)
(* lastSyncTime.  Connection ids stand for socket.id, room codes for       *)
(* room.id.  The value None stands for null / undefined / "not in map".    *)
(***************************************************************************)
EXTENDS Integers, Sequences, FiniteSets, TLC

\* ---------------------------------------------------------------- bounds
NumConns == 3
NumRooms == 2
MaxSeq == 3
MaxTicks == 3
MaxItems == 2
NumWorkers == 2
MaxRouters == 1
MaxTransports == 3
MaxProducers == 1
MaxConsumers == 1
MaxPending == 1
MaxSnaps == 3

\* ------------------------------------------------------ program constants
ENDED_LOCK_MS == 2000
HEARTBEAT_MS == 3000
QUEUE_MAX == 50
DRIFT_TICKS == 6

Conns == 1..NumConns
RoomIds == 1..NumRooms
None == 0

YtUrl == "https://youtu.be/dQw4w9WgXcQ"
DirectUrl == "https://cdn.example/clip.mp4"
BadUrl == "ftp://example/readme.txt"
Urls == {YtUrl, DirectUrl, BadUrl}
Positions == {0, 7}
Rates == {1, 2}

VARIABLES
    rooms,            \* rooms.ts registry: room code -> Room (live rooms only)
    userRooms,        \* rooms.ts: socket id -> room code or None
    open,             \* sockets that are still connected
    endedProcessing,  \* set of room codes holding the ended-lock
    endedTimers,      \* pending setTimeout callbacks releasing the lock
    heartbeatDue,     \* next firing time of the heartbeat setInterval
    now,              \* Date.now()
    nextItemId,       \* nanoid(): next fresh queue item id
    out,              \* events emitted by the last handler step, in order
    last,             \* the last handler step: event name, socket, arguments
    fetches,          \* fetchVideoTitle promises that have not settled yet
    sfu,              \* mediasoup.ts: rooms map, worker index and the library objects
    pending,          \* async handlers suspended at their await
    endedAt,          \* per room code: time of the last applied video:ended
    snapSeq,          \* per room code: seq of the last live snapshot emitted
    player,           \* DirectVideoPlayer.tsx: one mounted client player
    client            \* ScreenShareManager.ts, VoiceManager.ts: the managers of each socket

vars == <<rooms, userRooms, open, endedProcessing, endedTimers, heartbeatDue,
          now, nextItemId, out, last, fetches, sfu, pending, endedAt,
          snapSeq, player, client>>

\* ---------------------------------------------------------------- helpers
Range(s) == {s[i] : i \in 1..Len(s)}

SeqWithout(s, x) == SelectSeq(s, LAMBDA y : y # x)

RemoveAt(s, i) == SubSeq(s, 1, i - 1) \o SubSeq(s, i + 1, Len(s))

InsertAt(s, i, x) == SubSeq(s, 1, i) \o <<x>> \o SubSeq(s, i + 1, Len(s))

Min(a, b) == IF a < b THEN a ELSE b

Max(a, b) == IF a > b THEN a ELSE b

\* index of the first queue item with the given id, 0 for findIndex's -1
findIndex(queue, itemId) ==
    IF \E i \in 1..Len(queue) : queue[i].id = itemId
    THEN CHOOSE i \in 1..Len(queue) :
            queue[i].id = itemId /\ \A j \in 1..(i - 1) : queue[j].id # itemId
    ELSE 0

Live(r) == r \in DOMAIN rooms

\* getUserRoom(socket.id): the code of the sender's room, None if none
getUserRoom(c) ==
    IF userRooms[c] # None /\ Live(userRooms[c]) THEN userRooms[c] ELSE None

\* sockets in the socket.io broadcast group of a room code
Group(r) == IF Live(r) THEN Range(rooms[r].users) ELSE {}

Ev(name, to, data) == [ev |-> name, to |-> to, data |-> data]

Ack(c, name, data) == [ev |-> "ack", to |-> {c}, data |-> [of |-> name, val |-> data]]

NoData == [none |-> TRUE]

\* arg: the numeric argument of the event (None if none), url: its url ("" if none);
\* phase: "done" when the handler ran to its end in this step, "await" when it
\* was suspended at an await, "resume" when it ran on from its await to its end
OpPhase(name, c, arg, url, phase) ==
    [op |-> name, conn |-> c, arg |-> arg, url |-> url, phase |-> phase]

Op(name, c, arg, url) == OpPhase(name, c, arg, url, "done")

\* ------------------------------------------------------------- rooms.ts
detectVideoType(url) ==
    IF url = YtUrl THEN "youtube" ELSE IF url = DirectUrl THEN "direct" ELSE "null"

extractVideoId(url) == IF url = YtUrl THEN "dQw4w9WgXcQ" ELSE ""

createRoom(c, t) ==
    [ hostId |-> c, users |-> <<c>>,
      videoUrl |-> "", videoId |-> "", videoType |-> "youtube",
      isPlaying |-> FALSE, currentTime |-> 0, lastSyncTime |-> t,
      playbackRate |-> 1, seq |-> 0, queue |-> <<>>,
      voiceUsers |-> {}, screenSharerId |-> None ]

joinRoom(room, c) == [room EXCEPT !.users = Append(@, c)]
\* leaveRoom that keeps the departed host
leaveRoom_keeps_host(room, c) == [room EXCEPT !.users = SeqWithout(room.users, c)]

\* the room after socket c has left it; the caller deletes an emptied room
leaveRoom(room, c) ==
    LET rest == SeqWithout(room.users, c) IN
    [room EXCEPT !.users = rest,
                 !.hostId = IF @ = c /\ rest # <<>> THEN rest[1] ELSE @]

\* newHostId of leaveRoom's result, None when the host did not change
newHostId(room, c) ==
    LET rest == SeqWithout(room.users, c) IN
    IF room.hostId = c /\ rest # <<>> THEN rest[1] ELSE None

effectivePosition(room, t) ==
    IF room.isPlaying
    THEN room.currentTime + ((t - room.lastSyncTime) * room.playbackRate) \div 1000
    ELSE room.currentTime

getVideoState(room, t) ==
    [ videoId |-> room.videoId, videoUrl |-> room.videoUrl,
      videoType |-> room.videoType, isPlaying |-> room.isPlaying,
      currentTime |-> effectivePosition(room, t),
      playbackRate |-> room.playbackRate, timestamp |-> t, seq |-> room.seq ]

\* addMessage(room, 'system', ''): the message object it returns, None for null
addMessage(room, text) == [text |-> text]

\* room.users.keys() as a set: the socket.io group io.to(room.id) of a live room
Members(room) == Range(room.users)

SystemMsg(room, text) == <<Ev("chat:message", Members(room), addMessage(room, text))>>

\* --------------------------------------------- video handlers (part_008)
\* Every handler below is the body that runs once getUserRoom has found the
\* sender's room; it yields the room after the handler and the events emitted.
Res(room, evs) == [room |-> room, out |-> evs]

loadItem(room, videoId, videoUrl, t) ==
    [room EXCEPT !.videoId = videoId, !.videoUrl = videoUrl,
                 !.videoType = IF videoId # "" THEN "youtube" ELSE "direct",
                 !.isPlaying = TRUE, !.currentTime = 0,
                 !.lastSyncTime = t, !.seq = @ + 1]

\* video:load that loads what it cannot classify as a direct video
video_load_unchecked(room, c, url, t) ==
    LET room2 == loadItem(room, extractVideoId(url), url, t) IN
    Res(room2, <<Ev("video:load", Members(room2), getVideoState(room2, t))>>
               \o SystemMsg(room2, "loaded a new video"))

video_load(room, c, url, t) ==
    IF detectVideoType(url) = "null"
    THEN Res(room, <<Ev("error", {c}, NoData)>>)
    ELSE LET room2 == loadItem(room, extractVideoId(url), url, t) IN
         Res(room2, <<Ev("video:load", Members(room2), getVideoState(room2, t))>>
                    \o SystemMsg(room2, "loaded a new video"))
\* video:play without the echo check
video_play_always(room, t) ==
    LET room2 == [room EXCEPT !.isPlaying = TRUE, !.lastSyncTime = t,
                              !.seq = @ + 1] IN
    Res(room2, <<Ev("video:state-update", Members(room2), getVideoState(room2, t))>>)


video_play(room, t) ==
    IF room.isPlaying
    THEN Res(room, <<>>)
    ELSE LET room2 == [room EXCEPT !.isPlaying = TRUE, !.lastSyncTime = t,
                                   !.seq = @ + 1] IN
         Res(room2, <<Ev("video:state-update", Members(room2), getVideoState(room2, t))>>)

video_pause(room, pos, t) ==
    IF ~room.isPlaying
    THEN Res(room, <<>>)
    ELSE LET room2 == [room EXCEPT !.isPlaying = FALSE, !.currentTime = pos,
                                   !.lastSyncTime = t, !.seq = @ + 1] IN
         Res(room2, <<Ev("video:state-update", Members(room2), getVideoState(room2, t))>>)

\* video:seek that is ignored while the room is paused
video_seek_playing_only(room, pos, t) ==
    IF ~room.isPlaying
    THEN Res(room, <<>>)
    ELSE LET room2 == [room EXCEPT !.currentTime = pos, !.lastSyncTime = t,
                                   !.seq = @ + 1] IN
         Res(room2, <<Ev("video:state-update", Members(room2), getVideoState(room2, t))>>)

video_seek(room, pos, t) ==
    LET room2 == [room EXCEPT !.currentTime = pos, !.lastSyncTime = t,
                              !.seq = @ + 1] IN
    Res(room2, <<Ev("video:state-update", Members(room2), getVideoState(room2, t))>>)
\* video:rate without the seq bump
video_rate_same_seq(room, rate, t) ==
    LET room2 == [room EXCEPT !.playbackRate = rate] IN
    Res(room2, <<Ev("video:state-update", Members(room2), getVideoState(room2, t))>>)


video_rate(room, rate, t) ==
    LET room2 == [room EXCEPT !.playbackRate = rate, !.seq = @ + 1] IN
    Res(room2, <<Ev("video:state-update", Members(room2), getVideoState(room2, t))>>)
\* video:ended that announces the queue before the video
video_ended_queue_first(room, locked, t) ==
    IF Len(room.queue) = 0 \/ locked
    THEN [room |-> room, out |-> <<>>, lock |-> FALSE]
    ELSE LET next == Head(room.queue)
             room2 == [loadItem(room, next.videoId, next.videoUrl, t)
                          EXCEPT !.queue = Tail(room.queue)] IN
         [room |-> room2,
          out |-> <<Ev("queue:update", Members(room2), [queue |-> room2.queue]),
                    Ev("video:load", Members(room2), getVideoState(room2, t))>>
                  \o SystemMsg(room2, "Now playing next in queue"),
          lock |-> TRUE]

\* video:ended without the endedProcessing check
video_ended_unguarded(room, locked, t) ==
    IF Len(room.queue) = 0
    THEN [room |-> room, out |-> <<>>, lock |-> FALSE]
    ELSE LET next == Head(room.queue)
             room2 == [loadItem(room, next.videoId, next.videoUrl, t)
                          EXCEPT !.queue = Tail(room.queue)] IN
         [room |-> room2,
          out |-> <<Ev("video:load", Members(room2), getVideoState(room2, t)),
                    Ev("queue:update", Members(room2), [queue |-> room2.queue])>>
                  \o SystemMsg(room2, "Now playing next in queue"),
          lock |-> TRUE]

\* locked: endedProcessing.has(room.id); the result's lock field tells whether
\* the handler took the lock (and armed the release timer)
video_ended(room, locked, t) ==
    IF Len(room.queue) = 0 \/ locked
    THEN [room |-> room, out |-> <<>>, lock |-> FALSE]
    ELSE LET next == Head(room.queue)
             room2 == [loadItem(room, next.videoId, next.videoUrl, t)
                          EXCEPT !.queue = Tail(room.queue)] IN
         [room |-> room2,
          out |-> <<Ev("video:load", Members(room2), getVideoState(room2, t)),
                    Ev("queue:update", Members(room2), [queue |-> room2.queue])>>
                  \o SystemMsg(room2, "Now playing next in queue"),
          lock |-> TRUE]

\* --------------------------------------------- queue handlers (part_008)
\* ack values of queue:add
AddOk == [success |-> TRUE]
AddErr == [success |-> FALSE]

\* queue:add without the capacity test
queue_add_unbounded(room, c, url, itemId) ==
    IF detectVideoType(url) = "null"
    THEN [room |-> room, out |-> <<Ack(c, "queue:add", AddErr)>>, fetch |-> FALSE]
    ELSE LET videoId == extractVideoId(url)
             item == [id |-> itemId, videoId |-> videoId, videoUrl |-> url,
                      title |-> IF detectVideoType(url) = "youtube"
                                THEN videoId ELSE "clip.mp4"]
             room2 == [room EXCEPT !.queue = Append(@, item)] IN
         [room |-> room2,
          out |-> <<Ack(c, "queue:add", AddOk),
                    Ev("queue:update", Members(room2), [queue |-> room2.queue])>>
                  \o SystemMsg(room2, "added a video to the queue"),
          fetch |-> detectVideoType(url) = "youtube"]

queue_add(room, c, url, itemId) ==
    IF Len(room.queue) >= QUEUE_MAX
    THEN [room |-> room, out |-> <<Ack(c, "queue:add", AddErr)>>, fetch |-> FALSE]
    ELSE IF detectVideoType(url) = "null"
    THEN [room |-> room, out |-> <<Ack(c, "queue:add", AddErr)>>, fetch |-> FALSE]
    ELSE LET videoId == extractVideoId(url)
             item == [id |-> itemId, videoId |-> videoId, videoUrl |-> url,
                      title |-> IF detectVideoType(url) = "youtube"
                                THEN videoId ELSE "clip.mp4"]
             room2 == [room EXCEPT !.queue = Append(@, item)] IN
         [room |-> room2,
          out |-> <<Ack(c, "queue:add", AddOk),
                    Ev("queue:update", Members(room2), [queue |-> room2.queue])>>
                  \o SystemMsg(room2, "added a video to the queue"),
          fetch |-> detectVideoType(url) = "youtube"]

queue_remove(room, itemId) ==
    LET idx == findIndex(room.queue, itemId) IN
    IF idx = 0
    THEN Res(room, <<>>)
    ELSE LET room2 == [room EXCEPT !.queue = RemoveAt(@, idx)] IN
         Res(room2, <<Ev("queue:update", Members(room2), [queue |-> room2.queue])>>)

\* newIndex is the 0-based index of the event payload
queue_reorder(room, itemId, newIndex) ==
    LET idx == findIndex(room.queue, itemId) IN
    IF idx = 0
    THEN Res(room, <<>>)
    ELSE LET clamped == Max(0, Min(newIndex, Len(room.queue) - 1))
             item == room.queue[idx]
             room2 == [room EXCEPT !.queue = InsertAt(RemoveAt(@, idx), clamped, item)] IN
         Res(room2, <<Ev("queue:update", Members(room2), [queue |-> room2.queue])>>)

queue_play(room, itemId, t) ==
    LET idx == findIndex(room.queue, itemId) IN
    IF idx = 0
    THEN Res(room, <<>>)
    ELSE LET item == room.queue[idx]
             room2 == [loadItem(room, item.videoId, item.videoUrl, t)
                          EXCEPT !.queue = RemoveAt(room.queue, idx)] IN
         Res(room2, <<Ev("video:load", Members(room2), getVideoState(room2, t)),
                      Ev("queue:update", Members(room2), [queue |-> room2.queue])>>
                    \o SystemMsg(room2, "Now playing from queue"))

queue_play_next(room, t) ==
    IF Len(room.queue) = 0
    THEN Res(room, <<>>)
    ELSE LET next == Head(room.queue)
             room2 == [loadItem(room, next.videoId, next.videoUrl, t)
                          EXCEPT !.queue = Tail(room.queue)] IN
         Res(room2, <<Ev("video:load", Members(room2), getVideoState(room2, t)),
                      Ev("queue:update", Members(room2), [queue |-> room2.queue])>>
                    \o SystemMsg(room2, "Skipped to next in queue"))

\* ------------------------------------- screen share handlers (part_008)
\* screen:start that takes the share over from the current sharer
screen_start_takeover(room, c) ==
    LET room2 == [room EXCEPT !.screenSharerId = c] IN
    Res(room2, <<Ev("screen:started", Members(room2) \ {c}, [sharerId |-> c])>>
               \o [i \in 1..Len(SeqWithout(room2.users, c)) |->
                     Ev("screen:viewer-joined", {c},
                        [viewerId |-> SeqWithout(room2.users, c)[i]])])

\* screen:start that walks room.users without skipping the sharer
screen_start_names_self(room, c) ==
    IF room.screenSharerId # None
    THEN Res(room, <<Ev("error", {c}, NoData)>>)
    ELSE LET room2 == [room EXCEPT !.screenSharerId = c] IN
         Res(room2, <<Ev("screen:started", Members(room2) \ {c}, [sharerId |-> c])>>
                    \o [i \in 1..Len(room2.users) |->
                          Ev("screen:viewer-joined", {c}, [viewerId |-> room2.users[i]])])

screen_start(room, c) ==
    IF room.screenSharerId # None
    THEN Res(room, <<Ev("error", {c}, NoData)>>)
    ELSE LET room2 == [room EXCEPT !.screenSharerId = c] IN
         Res(room2, <<Ev("screen:started", Members(room2) \ {c}, [sharerId |-> c])>>
                    \o [i \in 1..Len(SeqWithout(room2.users, c)) |->
                          Ev("screen:viewer-joined", {c},
                             [viewerId |-> SeqWithout(room2.users, c)[i]])])

screen_stop(room, c) ==
    IF room.screenSharerId = c
    THEN Res([room EXCEPT !.screenSharerId = None],
             <<Ev("screen:stopped", Members(room) \ {c}, NoData)>>)
    ELSE Res(room, <<>>)
\* a heartbeat that stamps the next seq on its snapshot
heartbeat_next_seq(room, t) ==
    IF Cardinality(Members(room)) < 2 \/ ~room.isPlaying
    THEN <<>>
    ELSE <<Ev("video:heartbeat", Members(room),
              getVideoState([room EXCEPT !.seq = @ + 1], t))>>

\* a heartbeat that does not look whether a video is loaded
heartbeat_any_video(room, t) ==
    IF Cardinality(Members(room)) < 2 \/ ~room.isPlaying
    THEN <<>>
    ELSE <<Ev("video:heartbeat", Members(room), getVideoState(room, t))>>

\* heartbeat setInterval body for one room: the events it emits
heartbeat(room, t) ==
    IF Cardinality(Members(room)) < 2 \/ ~room.isPlaying
    THEN <<>>
    ELSE IF room.videoId = "" /\ room.videoUrl = ""
    THEN <<>>
    ELSE <<Ev("video:heartbeat", Members(room), getVideoState(room, t))>>

\* ------------------------------------------------------- mediasoup.ts
\* sfu.rooms       : room code -> [router, peers], peers : socket id -> PeerState
\* sfu.routers, sfu.transports, sfu.producers, sfu.consumers : the mediasoup
\*   objects by id (ids are minted in creation order); state is "creating"
\*   while the worker request is in flight, then "open", then "closed"
NewPeer == [sendTransport |-> None, recvTransport |-> None, producer |-> None,
            consumers |-> {}]

SfuInit == [rooms |-> <<>>, nextWorkerIdx |-> 0, routers |-> <<>>,
            transports |-> <<>>, producers |-> <<>>, consumers |-> <<>>]

HasSfuRoom(s, roomId) == roomId \in DOMAIN s.rooms

HasPeer(s, roomId, c) == HasSfuRoom(s, roomId) /\ c \in DOMAIN s.rooms[roomId].peers

\* the PeerState object that the listeners of a transport's producers and
\* consumers captured is still the one stored in the rooms map
PeerAttached(s, t) ==
    /\ HasPeer(s, t.room, t.conn)
    /\ s.rooms[t.room].router = t.router

MarkClosed(objs, ids) ==
    [i \in DOMAIN objs |-> IF i \in ids THEN [objs[i] EXCEPT !.state = "closed"] ELSE objs[i]]

OpenProducersOn(s, tids) ==
    {p \in DOMAIN s.producers :
        s.producers[p].transport \in tids /\ s.producers[p].state = "open"}

OpenConsumersOn(s, tids) ==
    {k \in DOMAIN s.consumers :
        s.consumers[k].transport \in tids /\ s.consumers[k].state = "open"}

\* transport.close(): closes the transport with its producers and consumers and
\* runs their 'transportclose' listeners (produce, consume)
transportClose(s, tid) ==
    IF tid = None \/ s.transports[tid].state # "open"
    THEN s
    ELSE LET t == s.transports[tid]
             prods == OpenProducersOn(s, {tid})
             cons == OpenConsumersOn(s, {tid})
             s1 == [s EXCEPT !.transports[tid].state = "closed",
                             !.producers = MarkClosed(@, prods),
                             !.consumers = MarkClosed(@, cons)] IN
         IF PeerAttached(s, t)
         THEN [s1 EXCEPT !.rooms[t.room].peers[t.conn] =
                    [@ EXCEPT !.producer = IF prods # {} THEN None ELSE @,
                              !.consumers = @ \ cons]]
         ELSE s1

\* router.close(): closes every transport of the router
routerClose(s, rid) ==
    LET tids == {i \in DOMAIN s.transports :
                    s.transports[i].router = rid /\ s.transports[i].state = "open"} IN
    [s EXCEPT !.routers[rid].state = "closed",
              !.transports = MarkClosed(@, tids),
              !.producers = MarkClosed(@, OpenProducersOn(s, tids)),
              !.consumers = MarkClosed(@, OpenConsumersOn(s, tids))]

getNextWorkerIdx(s) == s.nextWorkerIdx

\* the result's producerId is the id removePeer returns; closed lists what
\* removePeer closes, in the order of its close() calls
removePeer(s, roomId, c) ==
    IF ~HasPeer(s, roomId, c)
    THEN [sfu |-> s, producerId |-> None, closed |-> <<>>]
    ELSE LET peer == s.rooms[roomId].peers[c]
             s1 == [s EXCEPT !.consumers = MarkClosed(@, peer.consumers)]
             s2 == IF peer.producer = None THEN s1
                   ELSE [s1 EXCEPT !.producers = MarkClosed(@, {peer.producer})]
             s3 == transportClose(s2, peer.sendTransport)
             s4 == transportClose(s3, peer.recvTransport)
             left == DOMAIN s4.rooms[roomId].peers \ {c} IN
         [sfu |-> [s4 EXCEPT !.rooms[roomId].peers =
                        [x \in left |-> s4.rooms[roomId].peers[x]]],
          producerId |-> peer.producer,
          closed |-> SelectSeq(<<[kind |-> "consumer", ids |-> peer.consumers],
                                 [kind |-> "producer", ids |-> {peer.producer} \ {None}],
                                 [kind |-> "transport", ids |-> {peer.sendTransport} \ {None}],
                                 [kind |-> "transport", ids |-> {peer.recvTransport} \ {None}]>>,
                               LAMBDA x : x.ids # {})]

\* getExistingProducers without the excludeSocketId test
getExistingProducers_with_self(s, roomId, excludeSocketId) ==
    IF ~HasSfuRoom(s, roomId)
    THEN {}
    ELSE LET peers == s.rooms[roomId].peers IN
         {[socketId |-> sid, producerId |-> peers[sid].producer] :
            sid \in {x \in DOMAIN peers :
                        /\ peers[x].producer # None
                        /\ s.producers[peers[x].producer].state # "closed"}}

\* the entries as a set (the array order is the insertion order of the peers)
getExistingProducers(s, roomId, excludeSocketId) ==
    IF ~HasSfuRoom(s, roomId)
    THEN {}
    ELSE LET peers == s.rooms[roomId].peers IN
         {[socketId |-> sid, producerId |-> peers[sid].producer] :
            sid \in {x \in DOMAIN peers :
                        /\ x # excludeSocketId
                        /\ peers[x].producer # None
                        /\ s.producers[peers[x].producer].state # "closed"}}

cleanupRoom(s, roomId) ==
    IF ~HasSfuRoom(s, roomId)
    THEN s
    ELSE IF DOMAIN s.rooms[roomId].peers = {}
    THEN LET s1 == routerClose(s, s.rooms[roomId].router) IN
         [s1 EXCEPT !.rooms = [x \in DOMAIN s.rooms \ {roomId} |-> s.rooms[x]]]
    ELSE s

ensurePeer(s, roomId, c) ==
    IF ~HasSfuRoom(s, roomId) \/ HasPeer(s, roomId, c)
    THEN s
    ELSE [s EXCEPT !.rooms[roomId].peers = (c :> NewPeer) @@ @]

\* getOrCreateRouter up to its await: the worker is picked and the router id minted
createRouterStart(s, roomId) ==
    [s EXCEPT !.nextWorkerIdx = (@ + 1) % NumWorkers,
              !.routers = Append(@, [room |-> roomId, worker |-> getNextWorkerIdx(s),
                                     state |-> "creating"])]

\* getOrCreateRouter after its await: rooms.set(roomId, { router, peers: new Map() })
createRouterDone(s, roomId, rid) ==
    [s EXCEPT !.routers[rid].state = "open",
              !.rooms = (roomId :> [router |-> rid, peers |-> <<>>])
                        @@ [x \in DOMAIN s.rooms \ {roomId} |-> s.rooms[x]]]

\* createWebRtcTransport up to its await; the transport always goes to webRtcServers[0]
createTransportStart(s, roomId, c, direction) ==
    [s EXCEPT !.transports =
        Append(@, [router |-> s.rooms[roomId].router, room |-> roomId, conn |-> c,
                   direction |-> direction, server |-> 0, connected |-> FALSE,
                   state |-> "creating"])]

\* createWebRtcTransport after its await, on the RoomState object it captured
createTransportDone(s, tid) ==
    LET t == s.transports[tid]
        s1 == [s EXCEPT !.transports[tid].state = "open"] IN
    IF ~(HasSfuRoom(s, t.room) /\ s.rooms[t.room].router = t.router)
    THEN s1
    ELSE LET s2 == IF HasPeer(s1, t.room, t.conn) THEN s1
                   ELSE [s1 EXCEPT !.rooms[t.room].peers = (t.conn :> NewPeer) @@ @]
             peer == s2.rooms[t.room].peers[t.conn] IN
         IF t.direction = "send"
         THEN [transportClose(s2, peer.sendTransport)
                  EXCEPT !.rooms[t.room].peers[t.conn].sendTransport = tid]
         ELSE [transportClose(s2, peer.recvTransport)
                  EXCEPT !.rooms[t.room].peers[t.conn].recvTransport = tid]

\* the transport of the peer with the given id, None if it has none
peerTransport(s, roomId, c, transportId) ==
    IF ~HasPeer(s, roomId, c) THEN None
    ELSE LET peer == s.rooms[roomId].peers[c] IN
         IF transportId # None /\ transportId \in {peer.sendTransport, peer.recvTransport}
         THEN transportId ELSE None

\* the send transport produce finds: None when it returns null before its await
produceTransport(s, roomId, c) ==
    IF ~HasPeer(s, roomId, c) THEN None
    ELSE s.rooms[roomId].peers[c].sendTransport

produceStart(s, roomId, c) ==
    [s EXCEPT !.producers =
        Append(@, [transport |-> s.rooms[roomId].peers[c].sendTransport,
                   paused |-> FALSE, state |-> "creating"])]

produceDone(s, pid) ==
    LET t == s.transports[s.producers[pid].transport]
        s1 == [s EXCEPT !.producers[pid].state = "open"] IN
    IF PeerAttached(s, t)
    THEN [s1 EXCEPT !.rooms[t.room].peers[t.conn].producer = pid]
    ELSE s1

setProducerPaused(s, roomId, c, paused) ==
    IF HasPeer(s, roomId, c) /\ s.rooms[roomId].peers[c].producer # None
    THEN [s EXCEPT !.producers[s.rooms[roomId].peers[c].producer].paused = paused]
    ELSE s

pauseProducer(s, roomId, c) == setProducerPaused(s, roomId, c, TRUE)

resumeProducer(s, roomId, c) == setProducerPaused(s, roomId, c, FALSE)

\* router.canConsume: the producer is open on the router and the capabilities fit
canConsume(s, rid, producerId, capsOk) ==
    /\ capsOk
    /\ producerId \in DOMAIN s.producers
    /\ s.producers[producerId].state = "open"
    /\ s.transports[s.producers[producerId].transport].router = rid

\* consume up to its await reaches the worker: None when it returns null before
consumeTransport(s, roomId, c, producerId, capsOk) ==
    IF ~HasSfuRoom(s, roomId) THEN None
    ELSE IF ~canConsume(s, s.rooms[roomId].router, producerId, capsOk) THEN None
    ELSE IF ~HasPeer(s, roomId, c) THEN None
    ELSE s.rooms[roomId].peers[c].recvTransport

consumeStart(s, tid, producerId) ==
    [s EXCEPT !.consumers =
        Append(@, [transport |-> tid, producer |-> producerId, paused |-> TRUE,
                   state |-> "creating"])]

consumeDone(s, cid) ==
    LET t == s.transports[s.consumers[cid].transport]
        s1 == [s EXCEPT !.consumers[cid].state = "open"] IN
    IF PeerAttached(s, t)
    THEN [s1 EXCEPT !.rooms[t.room].peers[t.conn].consumers = @ \cup {cid}]
    ELSE s1

\* a consumer look-up that searches every peer of the SFU room
peerConsumer_any_peer(s, roomId, c, consumerId) ==
    IF /\ HasSfuRoom(s, roomId)
       /\ \E x \in DOMAIN s.rooms[roomId].peers :
             consumerId \in s.rooms[roomId].peers[x].consumers
    THEN consumerId ELSE None

\* the consumer of the peer with the given id, None if it has none
peerConsumer(s, roomId, c, consumerId) ==
    IF HasPeer(s, roomId, c) /\ consumerId \in s.rooms[roomId].peers[c].consumers
    THEN consumerId ELSE None

\* the 'producerclose' listener of a consumer (consume)
consumerProducerClosed(s, cid) ==
    LET t == s.transports[s.consumers[cid].transport]
        s1 == [s EXCEPT !.consumers[cid].state = "closed"] IN
    IF PeerAttached(s, t)
    THEN [s1 EXCEPT !.rooms[t.room].peers[t.conn].consumers = @ \ {cid}]
    ELSE s1

\* ------------------------------------------------------------------ Init
\* ------------------------------ client player (DirectVideoPlayer.tsx)
\* The snapshots the server sends about one video, in the order sent: seq
\* grows from one snapshot to the next.
Snapshots ==
    [seq : 1..MaxSeq, isPlaying : BOOLEAN, playbackRate : Rates, currentTime : Positions]

SnapshotSeqs ==
    {q \in UNION {[1..n -> Snapshots] : n \in 1..MaxSnaps} :
        \A i \in 1..(Len(q) - 1) : q[i].seq < q[i + 1].seq}

Abs(x) == IF x < 0 THEN 0 - x ELSE x

\* the component right after mounting: the refs at their initial values, the
\* video element paused at 0 with rate 1, no drift burst running
PlayerMounted(q) ==
    [inbox |-> q,
     sent |-> q,
     videoState |-> [seq |-> 0, isPlaying |-> FALSE, playbackRate |-> 1, currentTime |-> 0],
     isRemoteUpdate |-> FALSE,
     lastProcessedSeq |-> 0,
     paused |-> TRUE,
     playbackRate |-> 1,
     currentTime |-> 0,
     driftCount |-> DRIFT_TICKS,
     heartbeat |-> NoData,
     lastSeekTime |-> 0,
     playDebounceTimer |-> FALSE,
     pauseDebounceTimer |-> FALSE,
     called |-> [op |-> "none", currentTime |-> 0, flip |-> FALSE]]

\* setRemoteLock(200): raises the flag; RemoteLockTimeout lowers it
setRemoteLock(pl) == [pl EXCEPT !.isRemoteUpdate = TRUE]

\* syncPlayer, run by the effect each time the videoState prop changes.  The
\* snapshot is taken to arrive at once (elapsed = 0) and play() to succeed.
syncPlayer(pl) ==
    LET vs == pl.videoState IN
    IF pl.isRemoteUpdate THEN pl
    ELSE IF vs.seq <= pl.lastProcessedSeq THEN pl
    ELSE LET locked == setRemoteLock([pl EXCEPT !.lastProcessedSeq = vs.seq])
             targetTime == vs.currentTime IN
         [locked EXCEPT
            !.currentTime = IF Abs(pl.currentTime - targetTime) > 1
                            THEN targetTime ELSE pl.currentTime,
            !.lastSeekTime = IF Abs(pl.currentTime - targetTime) > 1
                             THEN targetTime ELSE pl.lastSeekTime,
            !.paused = IF vs.isPlaying /\ pl.paused THEN FALSE
                       ELSE IF ~vs.isPlaying /\ ~pl.paused THEN TRUE
                       ELSE pl.paused,
            !.playbackRate = vs.playbackRate,
            !.driftCount = 0]

\* one firing of the drift-burst interval
driftBurst(pl) ==
    LET count == pl.driftCount + 1
        counted == [pl EXCEPT !.driftCount = count]
        vs == pl.videoState IN
    IF count >= DRIFT_TICKS THEN counted
    ELSE IF pl.isRemoteUpdate THEN counted
    ELSE IF ~vs.isPlaying THEN counted
    ELSE IF Abs(pl.currentTime - vs.currentTime) > 1
         THEN setRemoteLock([counted EXCEPT !.currentTime = vs.currentTime,
                                            !.lastSeekTime = vs.currentTime])
         ELSE counted

\* syncPlayer of the player that takes heartbeats as a prop of their own
\* (part_006): no test of the remote-update flag, no drift burst
syncPlayer_part006(pl) ==
    LET vs == pl.videoState IN
    IF vs.seq <= pl.lastProcessedSeq THEN pl
    ELSE LET locked == setRemoteLock([pl EXCEPT !.lastProcessedSeq = vs.seq])
             targetTime == vs.currentTime IN
         [locked EXCEPT
            !.currentTime = IF Abs(pl.currentTime - targetTime) > 1
                            THEN targetTime ELSE pl.currentTime,
            !.paused = IF vs.isPlaying /\ pl.paused THEN FALSE
                       ELSE IF ~vs.isPlaying /\ ~pl.paused THEN TRUE
                       ELSE pl.paused,
            !.playbackRate = vs.playbackRate]

\* the heartbeat effect of that player, run when the heartbeat prop changes
heartbeatEffect(pl) ==
    LET hb == pl.heartbeat
        fixPlay == (hb.isPlaying /\ pl.paused) \/ (~hb.isPlaying /\ ~pl.paused)
        fixTime == hb.isPlaying /\ Abs(pl.currentTime - hb.currentTime) > 2 IN
    [pl EXCEPT
        !.isRemoteUpdate = @ \/ fixPlay \/ fixTime,
        !.paused = ~hb.isPlaying,
        !.currentTime = IF fixTime THEN hb.currentTime ELSE @,
        !.playbackRate = hb.playbackRate]

\* the heartbeats the server can send between two live snapshots: the state of
\* the latest live snapshot, playing, at the position the server has reached
HeartbeatsOf(vs) ==
    IF vs.seq >= 1 /\ vs.isPlaying
    THEN {[vs EXCEPT !.currentTime = pos] : pos \in Positions}
    ELSE {}

ServerVars == <<rooms, userRooms, open, endedProcessing, endedTimers, heartbeatDue,
                now, nextItemId, out, last, fetches, sfu, pending, endedAt,
                snapSeq>>

\* the next snapshot reaches the component: new videoState prop, the effect
\* calls syncPlayer
SnapshotArrives ==
    /\ player.inbox # <<>>
    /\ player' = syncPlayer([player EXCEPT !.videoState = Head(player.inbox),
                                           !.inbox = Tail(player.inbox)])
    /\ UNCHANGED <<ServerVars, client>>

\* the timer of setRemoteLock fires
RemoteLockTimeout ==
    /\ player.isRemoteUpdate
    /\ player' = [player EXCEPT !.isRemoteUpdate = FALSE]
    /\ UNCHANGED <<ServerVars, client>>

\* the next live snapshot reaches the player of part_006
SnapshotArrives_part006 ==
    /\ player.inbox # <<>>
    /\ player' = syncPlayer_part006([player EXCEPT !.videoState = Head(player.inbox),
                                                   !.inbox = Tail(player.inbox)])
    /\ UNCHANGED <<ServerVars, client>>

\* a video:heartbeat reaches the player of part_006
HeartbeatArrives(hb) ==
    /\ hb \in HeartbeatsOf(player.videoState)
    /\ hb # player.heartbeat
    /\ player' = heartbeatEffect([player EXCEPT !.heartbeat = hb])
    /\ UNCHANGED <<ServerVars, client>>

DriftTick ==
    /\ player.driftCount < DRIFT_TICKS
    /\ player' = driftBurst(player)
    /\ UNCHANGED <<ServerVars, client>>

\* onPlay, onPause or onSeek called with the element's position: the
\* callback that sends video:play, video:pause or video:seek to the server.
\* called.flip changes at every call.
forward(pl, op) ==
    [pl EXCEPT !.called = [op |-> op, currentTime |-> pl.currentTime,
                           flip |-> ~pl.called.flip]]

\* the listeners of the video element's play, pause and seeked events
handlePlay(pl) ==
    IF pl.isRemoteUpdate THEN pl
    ELSE [pl EXCEPT !.pauseDebounceTimer = FALSE, !.playDebounceTimer = TRUE]

handlePause(pl) ==
    IF pl.isRemoteUpdate THEN pl
    ELSE [pl EXCEPT !.playDebounceTimer = FALSE, !.pauseDebounceTimer = TRUE]

handleSeeked(pl) ==
    IF pl.isRemoteUpdate THEN pl
    ELSE LET sought == [pl EXCEPT !.lastSeekTime = pl.currentTime] IN
         IF Abs(pl.currentTime - pl.lastSeekTime) > 1
         THEN forward(sought, "seek") ELSE sought

\* the viewer starts, stops or moves the video with the element's controls;
\* the element fires its event
UserPlays ==
    /\ player.paused
    /\ player' = handlePlay([player EXCEPT !.paused = FALSE])
    /\ UNCHANGED <<ServerVars, client>>

UserPauses ==
    /\ ~player.paused
    /\ player' = handlePause([player EXCEPT !.paused = TRUE])
    /\ UNCHANGED <<ServerVars, client>>

UserSeeks(pos) ==
    /\ pos # player.currentTime
    /\ player' = handleSeeked([player EXCEPT !.currentTime = pos])
    /\ UNCHANGED <<ServerVars, client>>

\* the 100 ms timers set by handlePlay and handlePause fire
PlayDebounceFires ==
    /\ player.playDebounceTimer
    /\ player' = forward([player EXCEPT !.playDebounceTimer = FALSE], "play")
    /\ UNCHANGED <<ServerVars, client>>

PauseDebounceFires ==
    /\ player.pauseDebounceTimer
    /\ player' = forward([player EXCEPT !.pauseDebounceTimer = FALSE], "pause")
    /\ UNCHANGED <<ServerVars, client>>

\* the managers as constructed: nothing shared, nothing in flight
ShareIdle == [isSharing |-> FALSE, isViewing |-> FALSE, sharerId |-> None,
              starting |-> FALSE, up |-> <<>>, down |-> <<>>]

\* the producers of other participants that the manager gets to hear of
NumRemoteProducers == 3
RemoteProducers == 1..NumRemoteProducers

\* the VoiceManager of one socket: stage is where joinVoice stands
VoiceIdle == [isInVoice |-> FALSE, isMuted |-> TRUE, pushToTalk |-> FALSE,
              pttKeyDown |-> FALSE, stage |-> "idle", producer |-> "none",
              up |-> <<>>, down |-> <<>>,
              flows |-> [pr \in RemoteProducers |-> "none"],
              consumers |-> {}, closedSeen |-> {},
              pttBound |-> FALSE, pushToTalkKey |-> "v", held |-> {},
              reconnect |-> "none"]

ClientsIdle == [share |-> [c \in Conns |-> ShareIdle], voice |-> VoiceIdle]


ServerInit ==
    /\ rooms = <<>>
    /\ userRooms = [c \in Conns |-> None]
    /\ open = Conns
    /\ endedProcessing = {}
    /\ endedTimers = {}
    /\ heartbeatDue = HEARTBEAT_MS
    /\ now = 0
    /\ nextItemId = 1
    /\ out = <<>>
    /\ last = Op("init", None, None, "")
    /\ fetches = {}
    /\ sfu = SfuInit
    /\ pending = {}
    /\ endedAt = [r \in RoomIds |-> -1]
    /\ snapSeq = [r \in RoomIds |-> -1]

Init ==
    /\ ServerInit
    /\ player = PlayerMounted(<<>>)
    /\ client = ClientsIdle

\* the player mounted, with a finite run of snapshots on its way
InitPlayer ==
    /\ ServerInit
    /\ player \in {PlayerMounted(q) : q \in SnapshotSeqs}
    /\ client = ClientsIdle

\* ------------------------------------ room lifecycle handlers (part_008)
RoomStateEv(room, roomId, c, t) ==
    Ev("room:state", {c},
       [roomId |-> roomId, users |-> room.users, hostId |-> room.hostId,
        videoState |-> getVideoState(room, t), queue |-> room.queue,
        screenSharerId |-> room.screenSharerId])

\* room:create after createRoom has registered the room
room_create(room, roomId, c, t) ==
    Res(room, <<Ack(c, "room:create", [roomId |-> roomId, userId |-> c]),
                RoomStateEv(room, roomId, c, t)>>)

\* room:join that announces the joiner to the whole room, the joiner included
room_join_to_all(room, roomId, c, t) ==
    Res(room, <<Ack(c, "room:join", [success |-> TRUE, userId |-> c]),
                RoomStateEv(room, roomId, c, t),
                Ev("room:user-joined", Members(room), [user |-> c])>>
              \o (IF room.screenSharerId # None /\ room.screenSharerId # c
                  THEN <<Ev("screen:viewer-joined", {room.screenSharerId},
                            [viewerId |-> c])>>
                  ELSE <<>>)
              \o SystemMsg(room, "joined the room"))

\* room:join after joinRoom has added the sender to the room
room_join(room, roomId, c, t) ==
    Res(room, <<Ack(c, "room:join", [success |-> TRUE, userId |-> c]),
                RoomStateEv(room, roomId, c, t),
                Ev("room:user-joined", Members(room) \ {c}, [user |-> c])>>
              \o (IF room.screenSharerId # None /\ room.screenSharerId # c
                  THEN <<Ev("screen:viewer-joined", {room.screenSharerId},
                            [viewerId |-> c])>>
                  ELSE <<>>)
              \o SystemMsg(room, "joined the room"))

\* handleDisconnect, first block: voice and mediasoup clean-up
disconnectVoice(room, s, roomId, c) ==
    IF c \in room.voiceUsers
    THEN LET rp == removePeer(s, roomId, c) IN
         [room |-> [room EXCEPT !.voiceUsers = @ \ {c}],
          sfu |-> cleanupRoom(rp.sfu, roomId),
          out |-> <<Ev("voice:user-left", Members(room) \ {c}, [userId |-> c])>>
                  \o (IF rp.producerId # None
                      THEN <<Ev("voice:producer-closed", Members(room) \ {c},
                                [socketId |-> c, producerId |-> rp.producerId])>>
                      ELSE <<>>)]
    ELSE [room |-> room, sfu |-> s, out |-> <<>>]
\* handleDisconnect without the screen share clean-up
disconnectScreen_skipped(room, c) == Res(room, <<>>)

\* handleDisconnect, second block: screen share clean-up
disconnectScreen(room, c) ==
    IF room.screenSharerId = c
    THEN Res([room EXCEPT !.screenSharerId = None],
             <<Ev("screen:stopped", Members(room) \ {c}, NoData)>>)
    ELSE Res(room, <<>>)
\* handleDisconnect announcing the new host before the departure
disconnectLeave_host_first(before, c, group) ==
    LET room == leaveRoom(before, c)
        host == newHostId(before, c) IN
    Res(room, (IF host # None
               THEN <<Ev("room:host-changed", group, [hostId |-> host])>>
               ELSE <<>>)
              \o <<Ev("room:user-left", group \ {c}, [userId |-> c]),
                   Ev("chat:message", group, addMessage(room, "left the room"))>>)

\* handleDisconnect, from leaveRoom on.  before: the room as leaveRoom found
\* it, group: the sockets in the socket.io group of the room at that time
disconnectLeave(before, c, group) ==
    LET room == leaveRoom(before, c)
        host == newHostId(before, c) IN
    Res(room, <<Ev("room:user-left", group \ {c}, [userId |-> c]),
                Ev("chat:message", group, addMessage(room, "left the room"))>>
              \o (IF host # None
                  THEN <<Ev("room:host-changed", group, [hostId |-> host])>>
                  ELSE <<>>))

\* the suspended handlers, once the room object they captured has left the registry
OrphanedPending(recs, roomId) ==
    {IF x.room = roomId THEN [x EXCEPT !.orphan = TRUE] ELSE x : x \in recs}

\* the same for the title lookups, which go on to read the queue of that object
OrphanedFetches(recs, roomId, queue) ==
    {IF x.room = roomId /\ ~x.orphan
     THEN [x EXCEPT !.orphan = TRUE, !.queue = queue] ELSE x : x \in recs}

\* handleDisconnect that announces the departure of a socket in no room as well
handleDisconnect_repeats(c, inGroup) ==
    LET r == getUserRoom(c) IN
    IF r = None
    THEN /\ out' = <<Ev("room:user-left", {}, [userId |-> c])>>
         /\ UNCHANGED <<rooms, userRooms, sfu, pending, fetches>>
    ELSE LET v == disconnectVoice(rooms[r], sfu, r, c)
             sc == disconnectScreen(v.room, c)
             group == IF inGroup THEN Members(rooms[r]) ELSE Members(rooms[r]) \ {c}
             lv == disconnectLeave(sc.room, c, group) IN
         /\ rooms' = IF lv.room.users = <<>>
                     THEN [x \in DOMAIN rooms \ {r} |-> rooms[x]]
                     ELSE [rooms EXCEPT ![r] = lv.room]
         /\ userRooms' = [userRooms EXCEPT ![c] = None]
         /\ sfu' = v.sfu
         /\ pending' = IF lv.room.users = <<>>
                       THEN OrphanedPending(pending, r) ELSE pending
         /\ fetches' = IF lv.room.users = <<>>
                       THEN OrphanedFetches(fetches, r, lv.room.queue) ELSE fetches
         /\ out' = v.out \o sc.out \o lv.out

\* handleDisconnect announcing the departure before the voice and screen clean-up
handleDisconnect_leave_first(c, inGroup) ==
    LET r == getUserRoom(c) IN
    IF r = None
    THEN /\ out' = <<>>
         /\ UNCHANGED <<rooms, userRooms, sfu, pending, fetches>>
    ELSE LET v == disconnectVoice(rooms[r], sfu, r, c)
             sc == disconnectScreen(v.room, c)
             group == IF inGroup THEN Members(rooms[r]) ELSE Members(rooms[r]) \ {c}
             lv == disconnectLeave(sc.room, c, group) IN
         /\ rooms' = IF lv.room.users = <<>>
                     THEN [x \in DOMAIN rooms \ {r} |-> rooms[x]]
                     ELSE [rooms EXCEPT ![r] = lv.room]
         /\ userRooms' = [userRooms EXCEPT ![c] = None]
         /\ sfu' = v.sfu
         /\ pending' = IF lv.room.users = <<>>
                       THEN OrphanedPending(pending, r) ELSE pending
         /\ fetches' = IF lv.room.users = <<>>
                       THEN OrphanedFetches(fetches, r, lv.room.queue) ELSE fetches
         /\ out' = lv.out \o v.out \o sc.out

\* inGroup: the socket is still in the socket.io group of its room (true for
\* room:leave; socket.io has emptied the groups of a socket before 'disconnect')
handleDisconnect(c, inGroup) ==
    LET r == getUserRoom(c) IN
    IF r = None
    THEN /\ out' = <<>>
         /\ UNCHANGED <<rooms, userRooms, sfu, pending, fetches>>
    ELSE LET v == disconnectVoice(rooms[r], sfu, r, c)
             sc == disconnectScreen(v.room, c)
             group == IF inGroup THEN Members(rooms[r]) ELSE Members(rooms[r]) \ {c}
             lv == disconnectLeave(sc.room, c, group) IN
         /\ rooms' = IF lv.room.users = <<>>
                     THEN [x \in DOMAIN rooms \ {r} |-> rooms[x]]
                     ELSE [rooms EXCEPT ![r] = lv.room]
         /\ userRooms' = [userRooms EXCEPT ![c] = None]
         /\ sfu' = v.sfu
         /\ pending' = IF lv.room.users = <<>>
                       THEN OrphanedPending(pending, r) ELSE pending
         /\ fetches' = IF lv.room.users = <<>>
                       THEN OrphanedFetches(fetches, r, lv.room.queue) ELSE fetches
         /\ out' = v.out \o sc.out \o lv.out

\* ---------------------------------------------------------------- actions
\* r: the unused code that createRoom's generator picks
RoomCreate(c, r) ==
    /\ c \in open
    /\ userRooms[c] = None
    /\ r \notin DOMAIN rooms
    /\ LET h == room_create(createRoom(c, now), r, c, now) IN
       /\ rooms' = (r :> h.room) @@ rooms
       /\ userRooms' = [userRooms EXCEPT ![c] = r]
       /\ out' = h.out
    /\ endedAt' = [endedAt EXCEPT ![r] = -1]
    /\ snapSeq' = [snapSeq EXCEPT ![r] = -1]
    /\ UNCHANGED <<player, client>>
    /\ last' = Op("room:create", c, None, "")
    /\ UNCHANGED <<open, endedProcessing, endedTimers, heartbeatDue, now,
                   nextItemId, fetches, sfu, pending>>

RoomJoin(c, r) ==
    /\ c \in open
    /\ userRooms[c] = None
    /\ IF ~Live(r)
       THEN /\ out' = <<Ack(c, "room:join", [success |-> FALSE])>>
            /\ UNCHANGED <<rooms, userRooms>>
       ELSE LET h == room_join(joinRoom(rooms[r], c), r, c, now) IN
            /\ rooms' = [rooms EXCEPT ![r] = h.room]
            /\ userRooms' = [userRooms EXCEPT ![c] = r]
            /\ out' = h.out
    /\ UNCHANGED <<player, client>>
    /\ last' = Op("room:join", c, r, "")
    /\ UNCHANGED <<open, endedProcessing, endedTimers, heartbeatDue, now,
                   nextItemId, fetches, sfu, pending, endedAt, snapSeq>>

RoomLeave(c) ==
    /\ c \in open
    /\ handleDisconnect(c, TRUE)
    /\ UNCHANGED <<player, client>>
    /\ last' = Op("room:leave", c, None, "")
    /\ UNCHANGED <<open, endedProcessing, endedTimers, heartbeatDue, now,
                   nextItemId, endedAt, snapSeq>>

Disconnect(c) ==
    /\ c \in open
    /\ open' = open \ {c}
    /\ handleDisconnect(c, FALSE)
    /\ UNCHANGED <<player, client>>
    /\ last' = Op("disconnect", c, None, "")
    /\ UNCHANGED <<endedProcessing, endedTimers, heartbeatDue, now,
                   nextItemId, endedAt, snapSeq>>

LiveSnapshots(evs) ==
    SelectSeq(evs, LAMBDA e : e.ev \in {"video:load", "video:state-update"})

\* a handler that only touches the sender's room: h is its result for that room
RoomHandler(c, op, h) ==
    /\ h.room.seq <= MaxSeq
    /\ rooms' = [rooms EXCEPT ![getUserRoom(c)] = h.room]
    /\ out' = h.out
    /\ UNCHANGED <<player, client>>
    /\ last' = op
    /\ snapSeq' = IF LiveSnapshots(h.out) = <<>> THEN snapSeq
                  ELSE [snapSeq EXCEPT ![getUserRoom(c)] =
                           LiveSnapshots(h.out)[Len(LiveSnapshots(h.out))].data.seq]

\* the sender is in no room: the handler returns at once
NoRoom(c, op) ==
    /\ getUserRoom(c) = None
    /\ out' = <<>>
    /\ UNCHANGED <<player, client>>
    /\ last' = op
    /\ UNCHANGED <<rooms, snapSeq>>

VideoFrame == <<userRooms, open, endedProcessing, endedTimers, heartbeatDue, now,
                nextItemId, fetches, sfu, pending, endedAt>>

VideoLoad(c, url) ==
    /\ c \in open
    /\ \/ NoRoom(c, Op("video:load", c, None, url))
       \/ /\ getUserRoom(c) # None
          /\ RoomHandler(c, Op("video:load", c, None, url),
                         video_load(rooms[getUserRoom(c)], c, url, now))
    /\ UNCHANGED VideoFrame

VideoPlay(c) ==
    /\ c \in open
    /\ \/ NoRoom(c, Op("video:play", c, None, ""))
       \/ /\ getUserRoom(c) # None
          /\ RoomHandler(c, Op("video:play", c, None, ""),
                         video_play(rooms[getUserRoom(c)], now))
    /\ UNCHANGED VideoFrame

VideoPause(c, pos) ==
    /\ c \in open
    /\ \/ NoRoom(c, Op("video:pause", c, pos, ""))
       \/ /\ getUserRoom(c) # None
          /\ RoomHandler(c, Op("video:pause", c, pos, ""),
                         video_pause(rooms[getUserRoom(c)], pos, now))
    /\ UNCHANGED VideoFrame

VideoSeek(c, pos) ==
    /\ c \in open
    /\ \/ NoRoom(c, Op("video:seek", c, pos, ""))
       \/ /\ getUserRoom(c) # None
          /\ RoomHandler(c, Op("video:seek", c, pos, ""),
                         video_seek(rooms[getUserRoom(c)], pos, now))
    /\ UNCHANGED VideoFrame

VideoRate(c, rate) ==
    /\ c \in open
    /\ \/ NoRoom(c, Op("video:rate", c, rate, ""))
       \/ /\ getUserRoom(c) # None
          /\ RoomHandler(c, Op("video:rate", c, rate, ""),
                         video_rate(rooms[getUserRoom(c)], rate, now))
    /\ UNCHANGED VideoFrame

\* video:ended that takes the lock without arming its release
VideoEnded_no_release(c) ==
    /\ c \in open
    /\ \/ /\ NoRoom(c, Op("video:ended", c, None, ""))
          /\ UNCHANGED <<endedProcessing, endedTimers, endedAt>>
       \/ /\ getUserRoom(c) # None
          /\ LET r == getUserRoom(c)
                 h == video_ended(rooms[r], r \in endedProcessing, now) IN
             /\ RoomHandler(c, Op("video:ended", c, None, ""), h)
             /\ endedProcessing' = IF h.lock THEN endedProcessing \cup {r}
                                   ELSE endedProcessing
             /\ endedTimers' = endedTimers
             /\ endedAt' = IF h.room # rooms[r] THEN [endedAt EXCEPT ![r] = now]
                          ELSE endedAt
    /\ UNCHANGED <<userRooms, open, heartbeatDue, now, nextItemId, fetches, sfu,
                   pending>>

VideoEnded(c) ==
    /\ c \in open
    /\ \/ /\ NoRoom(c, Op("video:ended", c, None, ""))
          /\ UNCHANGED <<endedProcessing, endedTimers, endedAt>>
       \/ /\ getUserRoom(c) # None
          /\ LET r == getUserRoom(c)
                 h == video_ended(rooms[r], r \in endedProcessing, now) IN
             /\ RoomHandler(c, Op("video:ended", c, None, ""), h)
             /\ endedProcessing' = IF h.lock THEN endedProcessing \cup {r}
                                   ELSE endedProcessing
             /\ endedTimers' = IF h.lock
                               THEN endedTimers \cup
                                    {[room |-> r, due |-> now + ENDED_LOCK_MS]}
                               ELSE endedTimers
             /\ endedAt' = IF h.room # rooms[r] THEN [endedAt EXCEPT ![r] = now]
                          ELSE endedAt
    /\ UNCHANGED <<userRooms, open, heartbeatDue, now, nextItemId, fetches, sfu,
                   pending>>

\* the setTimeout callback of video:ended
EndedTimeout(tm) ==
    /\ tm \in endedTimers
    /\ tm.due <= now
    /\ endedProcessing' = endedProcessing \ {tm.room}
    /\ endedTimers' = endedTimers \ {tm}
    /\ out' = <<>>
    /\ UNCHANGED <<player, client>>
    /\ last' = Op("timeout:ended", None, tm.room, "")
    /\ UNCHANGED <<rooms, userRooms, open, heartbeatDue, now, nextItemId, fetches,
                   sfu, pending, endedAt, snapSeq>>

QueueAdd(c, url) ==
    /\ c \in open
    /\ \/ /\ getUserRoom(c) = None
          /\ out' = <<Ack(c, "queue:add", AddErr)>>
          /\ UNCHANGED <<player, client>>
          /\ last' = Op("queue:add", c, None, url)
          /\ UNCHANGED <<rooms, nextItemId, fetches, snapSeq>>
       \/ /\ getUserRoom(c) # None
          /\ nextItemId <= MaxItems
          /\ LET r == getUserRoom(c)
                 h == queue_add(rooms[r], c, url, nextItemId) IN
             /\ RoomHandler(c, Op("queue:add", c, None, url), h)
             /\ nextItemId' = IF h.room # rooms[r] THEN nextItemId + 1 ELSE nextItemId
             /\ fetches' = IF h.fetch
                           THEN fetches \cup {[room |-> r, item |-> nextItemId,
                                               orphan |-> FALSE, queue |-> <<>>]}
                           ELSE fetches
    /\ UNCHANGED <<userRooms, open, endedProcessing, endedTimers, heartbeatDue, now,
                   sfu, pending, endedAt>>

\* a completion that puts the item back at the end of the queue when it is no
\* longer there
FetchTitleDone_reinserts(f, title) ==
    /\ f \in fetches
    /\ fetches' = fetches \ {f}
    /\ LET queue == IF f.orphan THEN f.queue ELSE rooms[f.room].queue
           found == \E i \in 1..Len(queue) : queue[i].id = f.item
           titled == IF found
                     THEN [i \in 1..Len(queue) |->
                             IF queue[i].id = f.item
                             THEN [queue[i] EXCEPT !.title = title] ELSE queue[i]]
                     ELSE Append(queue, [id |-> f.item, videoId |-> "dQw4w9WgXcQ",
                                         videoUrl |-> YtUrl, title |-> title]) IN
       /\ rooms' = IF f.orphan THEN rooms
                   ELSE [rooms EXCEPT ![f.room].queue = titled]
       /\ out' = <<Ev("queue:update", Group(f.room), [queue |-> titled])>>
    /\ UNCHANGED <<player, client>>
    /\ last' = Op("fetch:done", None, f.item, title)
    /\ UNCHANGED <<userRooms, open, endedProcessing, endedTimers, heartbeatDue, now,
                   nextItemId, sfu, pending, endedAt, snapSeq>>

\* fetchVideoTitle(videoId).then(...): title is the fetched title, or the
\* video id when the lookup failed
FetchTitleDone(f, title) ==
    /\ f \in fetches
    /\ fetches' = fetches \ {f}
    /\ LET queue == IF f.orphan THEN f.queue ELSE rooms[f.room].queue
           titled == [i \in 1..Len(queue) |->
                        IF queue[i].id = f.item
                        THEN [queue[i] EXCEPT !.title = title] ELSE queue[i]] IN
       /\ rooms' = IF f.orphan THEN rooms
                   ELSE [rooms EXCEPT ![f.room].queue = titled]
       /\ out' = <<Ev("queue:update", Group(f.room), [queue |-> titled])>>
    /\ UNCHANGED <<player, client>>
    /\ last' = Op("fetch:done", None, f.item, title)
    /\ UNCHANGED <<userRooms, open, endedProcessing, endedTimers, heartbeatDue, now,
                   nextItemId, sfu, pending, endedAt, snapSeq>>

QueueRemove(c, itemId) ==
    /\ c \in open
    /\ \/ NoRoom(c, Op("queue:remove", c, itemId, ""))
       \/ /\ getUserRoom(c) # None
          /\ RoomHandler(c, Op("queue:remove", c, itemId, ""),
                         queue_remove(rooms[getUserRoom(c)], itemId))
    /\ UNCHANGED VideoFrame

QueueReorder(c, itemId, newIndex) ==
    /\ c \in open
    /\ \/ NoRoom(c, Op("queue:reorder", c, itemId, ""))
       \/ /\ getUserRoom(c) # None
          /\ RoomHandler(c, Op("queue:reorder", c, itemId, ""),
                         queue_reorder(rooms[getUserRoom(c)], itemId, newIndex))
    /\ UNCHANGED VideoFrame

QueuePlay(c, itemId) ==
    /\ c \in open
    /\ \/ NoRoom(c, Op("queue:play", c, itemId, ""))
       \/ /\ getUserRoom(c) # None
          /\ RoomHandler(c, Op("queue:play", c, itemId, ""),
                         queue_play(rooms[getUserRoom(c)], itemId, now))
    /\ UNCHANGED VideoFrame

QueuePlayNext(c) ==
    /\ c \in open
    /\ \/ NoRoom(c, Op("queue:play-next", c, None, ""))
       \/ /\ getUserRoom(c) # None
          /\ RoomHandler(c, Op("queue:play-next", c, None, ""),
                         queue_play_next(rooms[getUserRoom(c)], now))
    /\ UNCHANGED VideoFrame

ScreenStart(c) ==
    /\ c \in open
    /\ \/ NoRoom(c, Op("screen:start", c, None, ""))
       \/ /\ getUserRoom(c) # None
          /\ RoomHandler(c, Op("screen:start", c, None, ""),
                         screen_start(rooms[getUserRoom(c)], c))
    /\ UNCHANGED VideoFrame

ScreenStop(c) ==
    /\ c \in open
    /\ \/ NoRoom(c, Op("screen:stop", c, None, ""))
       \/ /\ getUserRoom(c) # None
          /\ RoomHandler(c, Op("screen:stop", c, None, ""),
                         screen_stop(rooms[getUserRoom(c)], c))
    /\ UNCHANGED VideoFrame

\* what data.to of a signalling message can name: io.to() takes any socket.io
\* room name, and both a socket's own id and a room code are room names
RelayNames == {"screen:offer", "screen:answer", "screen:ice-candidate"}
RelayTargets == [kind : {"socket"}, id : Conns] \cup [kind : {"room"}, id : RoomIds]
Payloads == {"sdp"}

\* the sockets io.to(target) reaches
Reached(target) ==
    IF target.kind = "socket" THEN {target.id} \cap open ELSE Group(target.id)

\* screen:offer, screen:answer and screen:ice-candidate
screen_relay(name, c, target, payload) ==
    <<Ev(name, Reached(target), [from |-> c, payload |-> payload])>>

\* last.url carries the payload the sender gave
ScreenRelay(c, name, target, payload) ==
    /\ c \in open
    /\ out' = screen_relay(name, c, target, payload)
    /\ UNCHANGED <<player, client>>
    /\ last' = Op(name, c, None, payload)
    /\ UNCHANGED <<rooms, userRooms, open, endedProcessing, endedTimers,
                   heartbeatDue, now, nextItemId, fetches, sfu, pending, endedAt,
                   snapSeq>>

RECURSIVE HeartbeatOut(_)
\* the events of one tick, rooms visited in ascending code order
HeartbeatOut(ids) ==
    IF ids = {} THEN <<>>
    ELSE LET r == CHOOSE x \in ids : \A y \in ids : x <= y IN
         heartbeat(rooms[r], now) \o HeartbeatOut(ids \ {r})

Heartbeat ==
    /\ heartbeatDue <= now
    /\ heartbeatDue' = heartbeatDue + HEARTBEAT_MS
    /\ out' = HeartbeatOut(DOMAIN rooms)
    /\ UNCHANGED <<player, client>>
    /\ last' = Op("heartbeat", None, None, "")
    /\ UNCHANGED <<rooms, userRooms, open, endedProcessing, endedTimers, now,
                   nextItemId, fetches, sfu, pending, endedAt, snapSeq>>

\* one second passes; timers that are due run first
Tick ==
    /\ now + 1000 <= MaxTicks * 1000
    /\ heartbeatDue > now
    /\ \A tm \in endedTimers : tm.due > now
    /\ now' = now + 1000
    /\ out' = <<>>
    /\ UNCHANGED <<player, client>>
    /\ last' = Op("tick", None, None, "")
    /\ UNCHANGED <<rooms, userRooms, open, endedProcessing, endedTimers,
                   heartbeatDue, nextItemId, fetches, sfu, pending, endedAt, snapSeq>>

\* ------------------------------------------- voice handlers (part_008)
Pend(name, c, roomId, id) ==
    [op |-> name, conn |-> c, room |-> roomId, orphan |-> FALSE, id |-> id]

VoiceFrame == <<userRooms, open, endedProcessing, endedTimers, heartbeatDue, now,
                nextItemId, fetches, endedAt, snapSeq>>

\* voice:join from ensurePeer on.  voiceUsers: room.voiceUsers of the room
\* object the handler captured, group: the sockets in the group of room.id
voice_join(voiceUsers, s, roomId, c, group) ==
    LET s1 == ensurePeer(s, roomId, c) IN
    [voiceUsers |-> voiceUsers \cup {c},
     sfu |-> s1,
     out |-> <<Ev("voice:user-joined", group \ {c}, [userId |-> c]),
               Ack(c, "voice:join",
                   [existingProducers |-> getExistingProducers(s1, roomId, c)])>>]

\* voice:leave telling the whole room, the sender included
voice_leave_to_all(room, s, roomId, c) ==
    LET rp == removePeer(s, roomId, c) IN
    [room |-> [room EXCEPT !.voiceUsers = @ \ {c}],
     sfu |-> cleanupRoom(rp.sfu, roomId),
     out |-> <<Ev("voice:user-left", Members(room), [userId |-> c])>>
             \o (IF rp.producerId # None
                 THEN <<Ev("voice:producer-closed", Members(room),
                           [socketId |-> c, producerId |-> rp.producerId])>>
                 ELSE <<>>)]

voice_leave(room, s, roomId, c) ==
    LET rp == removePeer(s, roomId, c) IN
    [room |-> [room EXCEPT !.voiceUsers = @ \ {c}],
     sfu |-> cleanupRoom(rp.sfu, roomId),
     out |-> <<Ev("voice:user-left", Members(room) \ {c}, [userId |-> c])>>
             \o (IF rp.producerId # None
                 THEN <<Ev("voice:producer-closed", Members(room) \ {c},
                           [socketId |-> c, producerId |-> rp.producerId])>>
                 ELSE <<>>)]

\* routerCap, pendingCap: how many routers and suspended handlers the
\* exploration allows
VoiceJoinUpTo(c, routerCap, pendingCap) ==
    /\ c \in open
    /\ LET r == getUserRoom(c) IN
       \/ /\ r = None
          /\ out' = <<>>
          /\ UNCHANGED <<player, client>>
          /\ last' = Op("voice:join", c, None, "")
          /\ UNCHANGED <<rooms, sfu, pending>>
       \/ /\ r # None
          /\ HasSfuRoom(sfu, r)
          /\ LET h == voice_join(rooms[r].voiceUsers, sfu, r, c, Members(rooms[r])) IN
             /\ rooms' = [rooms EXCEPT ![r].voiceUsers = h.voiceUsers]
             /\ sfu' = h.sfu
             /\ out' = h.out
          /\ UNCHANGED <<player, client>>
          /\ last' = Op("voice:join", c, None, "")
          /\ UNCHANGED pending
       \/ /\ r # None
          /\ ~HasSfuRoom(sfu, r)
          /\ Len(sfu.routers) < routerCap
          /\ sfu' = createRouterStart(sfu, r)
          /\ Cardinality(pending) < pendingCap
          /\ pending' = pending \cup {Pend("voice:join", c, r, Len(sfu.routers) + 1)}
          /\ out' = <<>>
          /\ UNCHANGED <<player, client>>
          /\ last' = OpPhase("voice:join", c, None, "", "await")
          /\ UNCHANGED rooms
    /\ UNCHANGED VoiceFrame

VoiceJoin(c) == VoiceJoinUpTo(c, MaxRouters, MaxPending)

\* worker.createRouter has answered
VoiceJoinResume(p) ==
    /\ p \in pending
    /\ p.op = "voice:join"
    /\ LET h == voice_join(IF p.orphan THEN {} ELSE rooms[p.room].voiceUsers,
                           createRouterDone(sfu, p.room, p.id), p.room, p.conn,
                           Group(p.room)) IN
       /\ rooms' = IF p.orphan THEN rooms
                   ELSE [rooms EXCEPT ![p.room].voiceUsers = h.voiceUsers]
       /\ sfu' = h.sfu
       /\ out' = h.out
    /\ pending' = pending \ {p}
    /\ UNCHANGED <<player, client>>
    /\ last' = OpPhase("voice:join", p.conn, None, "", "resume")
    /\ UNCHANGED VoiceFrame

VoiceLeave(c) ==
    /\ c \in open
    /\ LET r == getUserRoom(c) IN
       \/ /\ r = None
          /\ out' = <<>>
          /\ UNCHANGED <<rooms, sfu>>
       \/ /\ r # None
          /\ LET h == voice_leave(rooms[r], sfu, r, c) IN
             /\ rooms' = [rooms EXCEPT ![r] = h.room]
             /\ sfu' = h.sfu
             /\ out' = h.out
    /\ UNCHANGED <<player, client>>
    /\ last' = Op("voice:leave", c, None, "")
    /\ UNCHANGED pending
    /\ UNCHANGED VoiceFrame

TransportOp(direction) ==
    IF direction = "send" THEN "voice:create-send-transport"
    ELSE "voice:create-recv-transport"

\* voice:create-send-transport and voice:create-recv-transport
CreateTransport(c, direction) ==
    /\ c \in open
    /\ LET r == getUserRoom(c) IN
       \/ /\ r = None \/ ~HasSfuRoom(sfu, r)
          /\ out' = <<Ack(c, TransportOp(direction), [id |-> None])>>
          /\ UNCHANGED <<player, client>>
          /\ last' = Op(TransportOp(direction), c, None, "")
          /\ UNCHANGED <<sfu, pending>>
       \/ /\ r # None
          /\ HasSfuRoom(sfu, r)
          /\ Len(sfu.transports) < MaxTransports
          /\ sfu' = createTransportStart(sfu, r, c, direction)
          /\ Cardinality(pending) < MaxPending
          /\ pending' = pending \cup
                {Pend(TransportOp(direction), c, r, Len(sfu.transports) + 1)}
          /\ out' = <<>>
          /\ UNCHANGED <<player, client>>
          /\ last' = OpPhase(TransportOp(direction), c, None, "", "await")
    /\ UNCHANGED rooms
    /\ UNCHANGED VoiceFrame

\* router.createWebRtcTransport has answered, or failed because the router
\* was closed in the meantime
CreateTransportResume(p) ==
    /\ p \in pending
    /\ p.op \in {"voice:create-send-transport", "voice:create-recv-transport"}
    /\ IF sfu.routers[sfu.transports[p.id].router].state = "closed"
       THEN /\ sfu' = [sfu EXCEPT !.transports[p.id].state = "closed"]
            /\ out' = <<>>
       ELSE /\ sfu' = createTransportDone(sfu, p.id)
            /\ out' = <<Ack(p.conn, p.op, [id |-> p.id])>>
    /\ pending' = pending \ {p}
    /\ UNCHANGED <<player, client>>
    /\ last' = OpPhase(p.op, p.conn, p.id, "", "resume")
    /\ UNCHANGED rooms
    /\ UNCHANGED VoiceFrame

ConnectTransport(c, transportId) ==
    /\ c \in open
    /\ LET r == getUserRoom(c) IN
       \/ /\ r = None \/ peerTransport(sfu, r, c, transportId) = None
          /\ out' = <<Ack(c, "voice:connect-transport", [connected |-> FALSE])>>
          /\ UNCHANGED <<player, client>>
          /\ last' = Op("voice:connect-transport", c, transportId, "")
          /\ UNCHANGED pending
       \/ /\ r # None
          /\ peerTransport(sfu, r, c, transportId) # None
          /\ Cardinality(pending) < MaxPending
          /\ pending' = pending \cup {Pend("voice:connect-transport", c, r, transportId)}
          /\ out' = <<>>
          /\ UNCHANGED <<player, client>>
          /\ last' = OpPhase("voice:connect-transport", c, transportId, "", "await")
    /\ UNCHANGED <<rooms, sfu>>
    /\ UNCHANGED VoiceFrame

\* transport.connect has answered, or failed because the transport was closed
\* or connect had been called on it before
ConnectTransportResume(p) ==
    /\ p \in pending
    /\ p.op = "voice:connect-transport"
    /\ IF sfu.transports[p.id].state = "closed" \/ sfu.transports[p.id].connected
       THEN /\ out' = <<>>
            /\ UNCHANGED sfu
       ELSE /\ sfu' = [sfu EXCEPT !.transports[p.id].connected = TRUE]
            /\ out' = <<Ack(p.conn, p.op, [connected |-> TRUE])>>
    /\ pending' = pending \ {p}
    /\ UNCHANGED <<player, client>>
    /\ last' = OpPhase(p.op, p.conn, p.id, "", "resume")
    /\ UNCHANGED rooms
    /\ UNCHANGED VoiceFrame

\* valid: mediasoup accepts data.kind and data.rtpParameters; cap: the number
\* of producers the exploration lets the worker create
ProduceUpTo(c, valid, cap) ==
    /\ c \in open
    /\ LET r == getUserRoom(c)
           tid == IF r = None THEN None ELSE produceTransport(sfu, r, c) IN
       \/ /\ tid = None
          /\ out' = <<Ack(c, "voice:produce", [producerId |-> None])>>
          /\ UNCHANGED <<player, client>>
          /\ last' = Op("voice:produce", c, None, "")
          /\ UNCHANGED <<sfu, pending>>
       \/ /\ tid # None
          /\ ~valid
          /\ out' = <<>>
          /\ UNCHANGED <<player, client>>
          /\ last' = Op("voice:produce", c, None, "invalid")
          /\ UNCHANGED <<sfu, pending>>
       \/ /\ tid # None
          /\ valid
          /\ Len(sfu.producers) < cap
          /\ sfu' = produceStart(sfu, r, c)
          /\ Cardinality(pending) < MaxPending
          /\ pending' = pending \cup {Pend("voice:produce", c, r, Len(sfu.producers) + 1)}
          /\ out' = <<>>
          /\ UNCHANGED <<player, client>>
          /\ last' = OpPhase("voice:produce", c, None, "", "await")
    /\ UNCHANGED rooms
    /\ UNCHANGED VoiceFrame

Produce(c, valid) == ProduceUpTo(c, valid, MaxProducers)

\* voice:produce broadcasting before it acknowledges
ProduceResume_notify_first(p) ==
    /\ p \in pending
    /\ p.op = "voice:produce"
    /\ IF sfu.transports[sfu.producers[p.id].transport].state = "closed"
       THEN /\ sfu' = [sfu EXCEPT !.producers[p.id].state = "closed"]
            /\ out' = <<>>
       ELSE /\ sfu' = produceDone(sfu, p.id)
            /\ out' = <<Ev("voice:new-producer", Group(p.room) \ {p.conn},
                           [socketId |-> p.conn, producerId |-> p.id]),
                        Ack(p.conn, p.op, [producerId |-> p.id])>>
    /\ pending' = pending \ {p}
    /\ UNCHANGED <<player, client>>
    /\ last' = OpPhase(p.op, p.conn, p.id, "", "resume")
    /\ UNCHANGED rooms
    /\ UNCHANGED VoiceFrame

\* transport.produce has answered, or failed because the transport was closed
ProduceResume(p) ==
    /\ p \in pending
    /\ p.op = "voice:produce"
    /\ IF sfu.transports[sfu.producers[p.id].transport].state = "closed"
       THEN /\ sfu' = [sfu EXCEPT !.producers[p.id].state = "closed"]
            /\ out' = <<>>
       ELSE /\ sfu' = produceDone(sfu, p.id)
            /\ out' = <<Ack(p.conn, p.op, [producerId |-> p.id]),
                        Ev("voice:new-producer", Group(p.room) \ {p.conn},
                           [socketId |-> p.conn, producerId |-> p.id])>>
    /\ pending' = pending \ {p}
    /\ UNCHANGED <<player, client>>
    /\ last' = OpPhase(p.op, p.conn, p.id, "", "resume")
    /\ UNCHANGED rooms
    /\ UNCHANGED VoiceFrame

Consume(c, producerId, capsOk) ==
    /\ c \in open
    /\ LET r == getUserRoom(c)
           tid == IF r = None THEN None
                  ELSE consumeTransport(sfu, r, c, producerId, capsOk) IN
       \/ /\ tid = None
          /\ out' = <<Ack(c, "voice:consume", [id |-> None])>>
          /\ UNCHANGED <<player, client>>
          /\ last' = Op("voice:consume", c, producerId, "")
          /\ UNCHANGED <<sfu, pending>>
       \/ /\ tid # None
          /\ Len(sfu.consumers) < MaxConsumers
          /\ sfu' = consumeStart(sfu, tid, producerId)
          /\ Cardinality(pending) < MaxPending
          /\ pending' = pending \cup {Pend("voice:consume", c, r, Len(sfu.consumers) + 1)}
          /\ out' = <<>>
          /\ UNCHANGED <<player, client>>
          /\ last' = OpPhase("voice:consume", c, producerId, "", "await")
    /\ UNCHANGED rooms
    /\ UNCHANGED VoiceFrame

\* transport.consume has answered, or failed because the transport or the
\* producer was closed
ConsumeResume(p) ==
    /\ p \in pending
    /\ p.op = "voice:consume"
    /\ IF \/ sfu.transports[sfu.consumers[p.id].transport].state = "closed"
          \/ sfu.producers[sfu.consumers[p.id].producer].state = "closed"
       THEN /\ sfu' = [sfu EXCEPT !.consumers[p.id].state = "closed"]
            /\ out' = <<>>
       ELSE /\ sfu' = consumeDone(sfu, p.id)
            /\ out' = <<Ack(p.conn, p.op,
                            [id |-> p.id, producerId |-> sfu.consumers[p.id].producer])>>
    /\ pending' = pending \ {p}
    /\ UNCHANGED <<player, client>>
    /\ last' = OpPhase(p.op, p.conn, p.id, "", "resume")
    /\ UNCHANGED rooms
    /\ UNCHANGED VoiceFrame

ResumeConsumer(c, consumerId) ==
    /\ c \in open
    /\ LET r == getUserRoom(c) IN
       \/ /\ r = None \/ peerConsumer(sfu, r, c, consumerId) = None
          /\ out' = <<Ack(c, "voice:resume-consumer", [resumed |-> FALSE])>>
          /\ UNCHANGED <<player, client>>
          /\ last' = Op("voice:resume-consumer", c, consumerId, "")
          /\ UNCHANGED pending
       \/ /\ r # None
          /\ peerConsumer(sfu, r, c, consumerId) # None
          /\ Cardinality(pending) < MaxPending
          /\ pending' = pending \cup {Pend("voice:resume-consumer", c, r, consumerId)}
          /\ out' = <<>>
          /\ UNCHANGED <<player, client>>
          /\ last' = OpPhase("voice:resume-consumer", c, consumerId, "", "await")
    /\ UNCHANGED <<rooms, sfu>>
    /\ UNCHANGED VoiceFrame

\* consumer.resume has answered, or failed because the consumer was closed
ResumeConsumerResume(p) ==
    /\ p \in pending
    /\ p.op = "voice:resume-consumer"
    /\ IF sfu.consumers[p.id].state = "closed"
       THEN /\ out' = <<>>
            /\ UNCHANGED sfu
       ELSE /\ sfu' = [sfu EXCEPT !.consumers[p.id].paused = FALSE]
            /\ out' = <<Ack(p.conn, p.op, [resumed |-> TRUE])>>
    /\ pending' = pending \ {p}
    /\ UNCHANGED <<player, client>>
    /\ last' = OpPhase(p.op, p.conn, p.id, "", "resume")
    /\ UNCHANGED rooms
    /\ UNCHANGED VoiceFrame

PauseProducer(c) ==
    /\ c \in open
    /\ sfu' = IF getUserRoom(c) = None THEN sfu
              ELSE pauseProducer(sfu, getUserRoom(c), c)
    /\ out' = <<>>
    /\ UNCHANGED <<player, client>>
    /\ last' = Op("voice:pause-producer", c, None, "")
    /\ UNCHANGED <<rooms, pending>>
    /\ UNCHANGED VoiceFrame

ResumeProducer(c) ==
    /\ c \in open
    /\ sfu' = IF getUserRoom(c) = None THEN sfu
              ELSE resumeProducer(sfu, getUserRoom(c), c)
    /\ out' = <<>>
    /\ UNCHANGED <<player, client>>
    /\ last' = Op("voice:resume-producer", c, None, "")
    /\ UNCHANGED <<rooms, pending>>
    /\ UNCHANGED VoiceFrame

\* the worker tells an open consumer that its producer was closed
ProducerCloseNotify(cid) ==
    /\ cid \in DOMAIN sfu.consumers
    /\ sfu.consumers[cid].state = "open"
    /\ sfu.producers[sfu.consumers[cid].producer].state = "closed"
    /\ sfu' = consumerProducerClosed(sfu, cid)
    /\ out' = <<>>
    /\ UNCHANGED <<player, client>>
    /\ last' = Op("producerclose", None, cid, "")
    /\ UNCHANGED <<rooms, pending>>
    /\ UNCHANGED VoiceFrame

\* ------------------------------------------------------- specifications
\* The events of the system, grouped; CS: the sockets that send them,
\* RS: the room codes in use.
Lifecycle(CS, RS) ==
    \E c \in CS :
        \/ \E r \in RS : RoomCreate(c, r)
        \/ \E r \in RS : RoomJoin(c, r)
        \/ RoomLeave(c)
        \/ Disconnect(c)

Playback(CS, US, PS, KS) ==
    \E c \in CS :
        \/ \E url \in US : VideoLoad(c, url)
        \/ VideoPlay(c)
        \/ \E pos \in PS : VideoPause(c, pos)
        \/ \E pos \in PS : VideoSeek(c, pos)
        \/ \E rate \in KS : VideoRate(c, rate)

Ended(CS) ==
    \/ \E c \in CS : VideoEnded(c)
    \/ \E tm \in endedTimers : EndedTimeout(tm)

QueueEdit(CS) ==
    \E c \in CS :
        \/ \E i \in 1..MaxItems : QueueRemove(c, i)
        \/ \E i \in 1..MaxItems, n \in 0..MaxItems : QueueReorder(c, i, n)

QueuePlayback(CS) ==
    \E c \in CS :
        \/ \E i \in 1..MaxItems : QueuePlay(c, i)
        \/ QueuePlayNext(c)

TitleFetched ==
    \E f \in fetches, title \in {"Never Gonna Give You Up", "dQw4w9WgXcQ"} :
        FetchTitleDone(f, title)

Screen(CS) ==
    \E c \in CS :
        \/ ScreenStart(c)
        \/ ScreenStop(c)

ScreenSignal(CS) ==
    \E c \in CS, name \in RelayNames, target \in RelayTargets, payload \in Payloads :
        ScreenRelay(c, name, target, payload)

VoiceMembership(CS) ==
    \/ \E c \in CS : VoiceJoin(c) \/ VoiceLeave(c)
    \/ \E p \in pending : VoiceJoinResume(p)

VoiceTransports(CS) ==
    \/ \E c \in CS, direction \in {"send", "recv"} : CreateTransport(c, direction)
    \/ \E c \in CS, tid \in 1..MaxTransports : ConnectTransport(c, tid)
    \/ \E p \in pending : CreateTransportResume(p) \/ ConnectTransportResume(p)

VoiceMedia(CS) ==
    \/ \E c \in CS, valid \in BOOLEAN : Produce(c, valid)
    \/ \E c \in CS, pid \in 1..MaxProducers, capsOk \in BOOLEAN : Consume(c, pid, capsOk)
    \/ \E c \in CS, cid \in 1..MaxConsumers : ResumeConsumer(c, cid)
    \/ \E c \in CS : PauseProducer(c) \/ ResumeProducer(c)
    \/ \E p \in pending : ProduceResume(p) \/ ConsumeResume(p) \/ ResumeConsumerResume(p)
    \/ \E cid \in 1..MaxConsumers : ProducerCloseNotify(cid)

\* the whole server
Next ==
    \/ Lifecycle(Conns, RoomIds)
    \/ Playback(Conns, Urls, Positions, Rates)
    \/ Ended(Conns)
    \/ \E c \in Conns, url \in Urls : QueueAdd(c, url)
    \/ QueueEdit(Conns)
    \/ QueuePlayback(Conns)
    \/ TitleFetched
    \/ Screen(Conns)
    \/ ScreenSignal(Conns)
    \/ VoiceMembership(Conns)
    \/ VoiceTransports(Conns)
    \/ VoiceMedia(Conns)
    \/ Heartbeat
    \/ Tick

Spec == Init /\ [][Next]_vars

\* the state after socket 1 has created room 1, socket 2 has joined it and
\* n direct-video links have been added to its queue; their ids lie above the
\* ids the model hands out from nextItemId = 1 on
PrefilledQueue(n) ==
    [i \in 1..n |-> [id |-> MaxItems + i, videoId |-> "", videoUrl |-> DirectUrl,
                     title |-> "clip.mp4"]]

InitQueueFull ==
    /\ rooms = (1 :> [joinRoom(createRoom(1, 0), 2) EXCEPT
                         !.queue = PrefilledQueue(QUEUE_MAX + 1 - MaxItems)])
    /\ userRooms = [c \in Conns |-> IF c \in 1..2 THEN 1 ELSE None]
    /\ open = Conns
    /\ endedProcessing = {}
    /\ endedTimers = {}
    /\ heartbeatDue = HEARTBEAT_MS
    /\ now = 0
    /\ nextItemId = 1
    /\ out = <<>>
    /\ last = Op("init", None, None, "")
    /\ fetches = {}
    /\ sfu = SfuInit
    /\ pending = {}
    /\ endedAt = [r \in RoomIds |-> -1]
    /\ snapSeq = [r \in RoomIds |-> -1]
    /\ player = PlayerMounted(<<>>)
    /\ client = ClientsIdle

\* a queue one short of its capacity, edited by two sockets
NextQueueFull ==
    \/ \E c \in 1..2, url \in Urls : QueueAdd(c, url)
    \/ QueueEdit(1..2)
    \/ \E c \in 1..2 : QueuePlayNext(c)
    \/ TitleFetched

SpecQueueFull == InitQueueFull /\ [][NextQueueFull]_vars

\* room membership and screen sharing, every socket and room code
NextRoom == Lifecycle(Conns, RoomIds) \/ Screen(Conns)

SpecRoom == Init /\ [][NextRoom]_vars

\* every operation that loads a video or changes the playback state, at one
\* instant, sent by two sockets in one room code
NextSeq ==
    \/ Lifecycle(1..2, {1})
    \/ Playback(1..2, {YtUrl, BadUrl}, {7}, {2})
    \/ \E c \in 1..2 : VideoEnded(c)
    \/ \E c \in 1..2 : QueueAdd(c, DirectUrl)
    \/ QueuePlayback(1..2)

SpecSeq == Init /\ [][NextSeq]_vars

\* playback over time in one room, with the heartbeat
NextPlayback ==
    \/ Lifecycle(1..2, {1})
    \/ Playback(1..2, Urls, Positions, Rates)
    \/ Heartbeat
    \/ Tick

SpecPlayback == Init /\ [][NextPlayback]_vars

\* queue auto-advance over time in one room
NextEnded ==
    \/ Lifecycle(Conns, {1})
    \/ Ended(Conns)
    \/ \E c \in Conns : QueueAdd(c, DirectUrl)
    \/ Tick

SpecEnded == Init /\ [][NextEnded]_vars

\* one room code whose rooms are all created by socket RoomCreator; every
\* socket joins and leaves
RoomCreator == 1

NextCreator ==
    \/ RoomCreate(RoomCreator, 1)
    \/ \E c \in Conns : RoomJoin(c, 1)
    \/ \E c \in Conns : RoomLeave(c)
    \/ \E c \in Conns : Disconnect(c)
    \/ Screen(Conns)

SpecCreator == Init /\ [][NextCreator]_vars

\* queue auto-advance over time in two rooms
NextEndedRooms ==
    \/ Lifecycle(1..2, RoomIds)
    \/ Ended(1..2)
    \/ \E c \in 1..2 : QueueAdd(c, DirectUrl)
    \/ Tick

SpecEndedRooms == Init /\ [][NextEndedRooms]_vars

\* room membership with a little playback and a queue, one room code
NextHost ==
    \/ Lifecycle(Conns, {1})
    \/ \E c \in Conns : VideoLoad(c, YtUrl)
    \/ \E c \in Conns : QueueAdd(c, DirectUrl)

SpecHost == Init /\ [][NextHost]_vars

\* joining and leaving voice while sockets come and go, one room code
NextVoiceJoin == Lifecycle(Conns, {1}) \/ VoiceMembership(Conns)

SpecVoiceJoin == Init /\ [][NextVoiceJoin]_vars

\* one socket that creates transports and produces more than once
NextProduceAgain ==
    \/ Lifecycle({1}, {1})
    \/ VoiceMembership({1})
    \/ \E direction \in {"send", "recv"} : CreateTransport(1, direction)
    \/ \E p \in pending : CreateTransportResume(p)
    \/ ProduceUpTo(1, TRUE, MaxProducers + 1)
    \/ \E p \in pending : ProduceResume(p)

SpecProduceAgain == Init /\ [][NextProduceAgain]_vars

\* two sockets of one room joining voice while the other's join is suspended
NextJoinRace ==
    \/ Lifecycle(1..2, {1})
    \/ \E c \in 1..2 : VoiceJoinUpTo(c, MaxRouters + 1, MaxPending + 1)
    \/ \E c \in 1..2 : VoiceLeave(c)
    \/ \E p \in pending : VoiceJoinResume(p)

SpecJoinRace == Init /\ [][NextJoinRace]_vars

\* voice rooms created one after the other, so that routers land on every
\* worker, and transports created in them
NextWorkers ==
    \/ Lifecycle(1..2, {1})
    \/ VoiceJoinUpTo(1, MaxRouters + 1, MaxPending)
    \/ VoiceLeave(1)
    \/ \E p \in pending : VoiceJoinResume(p)
    \/ \E direction \in {"send", "recv"} : CreateTransport(1, direction)
    \/ \E p \in pending : CreateTransportResume(p)

SpecWorkers == Init /\ [][NextWorkers]_vars

\* screen-share signalling between sockets in and out of two rooms
NextRelay == Lifecycle(Conns, RoomIds) \/ ScreenSignal(Conns)

SpecRelay == Init /\ [][NextRelay]_vars

\* ------------------------- ScreenShareManager.ts against the server
\* client.share[c]: the manager of socket c, the messages it has emitted that
\* the server has not handled yet (up) and the events sent to it that it has
\* not handled yet (down)
MaxInFlight == 2

ShareConns == 1..2

RECURSIVE Deliver(_, _)
\* the events of one handler, appended in order to the queues of their recipients
Deliver(share, evs) ==
    IF evs = <<>> THEN share
    ELSE Deliver([c \in DOMAIN share |->
                     IF c \in Head(evs).to
                     THEN [share[c] EXCEPT !.down = Append(@, Head(evs))]
                     ELSE share[c]],
                 Tail(evs))

ShareQuiet == \A d \in ShareConns :
                 Len(client.share[d].up) + Len(client.share[d].down) < MaxInFlight

\* startSharing up to its awaits (fetchIceServers, getDisplayMedia); the
\* controls offer the button only while the manager neither shares nor views
startSharingCall(c) ==
    /\ ~client.share[c].isSharing
    /\ ~client.share[c].isViewing
    /\ ~client.share[c].starting
    /\ ShareQuiet
    /\ client' = [client EXCEPT !.share[c].starting = TRUE]
    /\ UNCHANGED <<ServerVars, player>>

\* getDisplayMedia resolved: _isSharing = true, screen:start emitted
startSharingGranted(c) ==
    /\ client.share[c].starting
    /\ client' = [client EXCEPT !.share[c].starting = FALSE,
                                !.share[c].isSharing = TRUE,
                                !.share[c].sharerId = c,
                                !.share[c].up = Append(@, "screen:start")]
    /\ UNCHANGED <<ServerVars, player>>

\* getDisplayMedia rejected: the catch block
startSharingDenied(c) ==
    /\ client.share[c].starting
    /\ client' = [client EXCEPT !.share[c].starting = FALSE]
    /\ UNCHANGED <<ServerVars, player>>

stopSharing(c) ==
    /\ client.share[c].isSharing
    /\ client' = [client EXCEPT !.share[c].isSharing = FALSE,
                                !.share[c].sharerId = None,
                                !.share[c].up = Append(@, "screen:stop")]
    /\ UNCHANGED <<ServerVars, player>>

\* the socket listeners of the manager; it has none for the server's error event
shareListener(m, e) ==
    IF e.ev = "screen:started"
    THEN [m EXCEPT !.sharerId = e.data.sharerId, !.isViewing = TRUE]
    ELSE IF e.ev = "screen:stopped"
    THEN [m EXCEPT !.sharerId = None, !.isViewing = FALSE]
    ELSE m

ShareReceive(c) ==
    /\ client.share[c].down # <<>>
    /\ client' = [client EXCEPT !.share[c] =
                     shareListener([@ EXCEPT !.down = Tail(@)],
                                   Head(client.share[c].down))]
    /\ UNCHANGED <<ServerVars, player>>

\* the server handles the oldest message of socket c
ShareServer(c) ==
    /\ c \in open
    /\ client.share[c].up # <<>>
    /\ getUserRoom(c) # None
    /\ LET name == Head(client.share[c].up)
           r == getUserRoom(c)
           h == IF name = "screen:start" THEN screen_start(rooms[r], c)
                ELSE screen_stop(rooms[r], c) IN
       /\ rooms' = [rooms EXCEPT ![r] = h.room]
       /\ out' = h.out
       /\ last' = Op(name, c, None, "")
       /\ client' = [client EXCEPT !.share =
                        Deliver([@ EXCEPT ![c].up = Tail(@)], h.out)]
    /\ UNCHANGED <<userRooms, open, endedProcessing, endedTimers, heartbeatDue,
                   now, nextItemId, fetches, sfu, pending, endedAt, snapSeq,
                   player>>

\* the state after socket 1 has created room 1 and socket 2 has joined it
InitShare ==
    /\ rooms = (1 :> joinRoom(createRoom(1, 0), 2))
    /\ userRooms = [c \in Conns |-> IF c \in ShareConns THEN 1 ELSE None]
    /\ open = Conns
    /\ endedProcessing = {}
    /\ endedTimers = {}
    /\ heartbeatDue = HEARTBEAT_MS
    /\ now = 0
    /\ nextItemId = 1
    /\ out = <<>>
    /\ last = Op("init", None, None, "")
    /\ fetches = {}
    /\ sfu = SfuInit
    /\ pending = {}
    /\ endedAt = [r \in RoomIds |-> -1]
    /\ snapSeq = [r \in RoomIds |-> -1]
    /\ player = PlayerMounted(<<>>)
    /\ client = ClientsIdle

NextShare ==
    \E c \in ShareConns :
        \/ startSharingCall(c)
        \/ startSharingGranted(c)
        \/ startSharingDenied(c)
        \/ stopSharing(c)
        \/ ShareReceive(c)
        \/ ShareServer(c)

SpecShare == InitShare /\ [][NextShare]_vars

\* ------------------------------ VoiceManager.ts (mute) against the server
\* client.voice is the manager of socket VoiceConn; up and down are the
\* messages and acks in flight between it and the server, in order
VoiceConn == 1

\* the keys of the keyboard that matter: the configured push-to-talk key and
\* another one it can be changed to
Keys == {"v", "b"}

\* isMuted = true, producer.pause(), voice:pause-producer: the block shared by
\* unbindPTT, handlePTTUp and handlePTTBlur
muteNow(v) ==
    [v EXCEPT !.isMuted = TRUE,
              !.producer = IF @ = "none" THEN @ ELSE "paused",
              !.up = Append(@, "voice:pause-producer")]

setMutedOn(v, muted) ==
    IF ~v.isInVoice \/ (v.pushToTalk /\ ~muted) THEN v
    ELSE [v EXCEPT !.isMuted = muted,
                   !.producer = IF @ = "none" THEN @
                                ELSE IF muted THEN "paused" ELSE "live",
                   !.up = Append(@, IF muted THEN "voice:pause-producer"
                                    ELSE "voice:resume-producer")]

bindPTT(v) == [v EXCEPT !.pttBound = TRUE]

unbindPTT(v) ==
    IF ~v.pttBound THEN v
    ELSE LET v1 == [v EXCEPT !.pttBound = FALSE, !.pttKeyDown = FALSE] IN
         IF v1.isInVoice THEN muteNow(v1) ELSE v1

\* typing: the event's target is an input or a textarea
handlePTTDown(v, key, typing) ==
    IF ~v.isInVoice \/ ~v.pushToTalk \/ typing THEN v
    ELSE IF key = v.pushToTalkKey /\ ~v.pttKeyDown
    THEN [v EXCEPT !.pttKeyDown = TRUE, !.isMuted = FALSE,
                   !.producer = IF @ = "none" THEN @ ELSE "live",
                   !.up = Append(@, "voice:resume-producer")]
    ELSE v

handlePTTUp(v, key) ==
    IF ~v.isInVoice \/ ~v.pushToTalk THEN v
    ELSE IF key = v.pushToTalkKey
    THEN muteNow([v EXCEPT !.pttKeyDown = FALSE])
    ELSE v

handlePTTBlur(v) ==
    IF v.pttKeyDown THEN muteNow([v EXCEPT !.pttKeyDown = FALSE]) ELSE v

leaveVoiceOn(v) ==
    IF ~v.isInVoice THEN v
    ELSE LET v1 == unbindPTT([v EXCEPT !.up = Append(@, "voice:leave"),
                                       !.consumers = {},
                                       !.producer = "none"]) IN
         [v1 EXCEPT !.isInVoice = FALSE, !.isMuted = TRUE, !.stage = "idle"]

\* joinVoice from "Start muted" to the voice:join it emits
joinVoiceOn(v) ==
    [v EXCEPT !.isMuted = TRUE, !.isInVoice = TRUE, !.stage = "voice:join",
              !.up = Append(@, "voice:join")]

\* joinVoice up to its first await on the socket: isMuted = true,
\* isInVoice = true, voice:join emitted
joinVoiceCall ==
    /\ ~client.voice.isInVoice
    /\ client.voice.stage = "idle"
    /\ getUserRoom(VoiceConn) # None
    /\ client' = [client EXCEPT !.voice = joinVoiceOn(@)]
    /\ UNCHANGED <<ServerVars, player>>

\* joinVoice resumed by an ack: createSendTransport, then produce, then
\* "Start paused (muted)": this.producer.pause(), which pauses the client's
\* producer object and emits nothing; at its end bindPTT if push-to-talk is
\* on, and reconnectWithNewSettings, if it was the caller, goes on with
\* setMuted(false) unless the manager was muted before
joinVoiceAck ==
    /\ client.voice.down # <<>>
    /\ LET ack == Head(client.voice.down)
           v == [client.voice EXCEPT !.down = Tail(@)] IN
       client' = [client EXCEPT !.voice =
           IF ack = "voice:join"
           THEN [v EXCEPT !.stage = "voice:create-send-transport",
                          !.up = Append(@, "voice:create-send-transport")]
           ELSE IF ack = "voice:create-send-transport"
           THEN [v EXCEPT !.stage = "voice:produce",
                          !.up = Append(@, "voice:produce")]
           ELSE LET j == [v EXCEPT !.stage = "joined", !.producer = "paused",
                                   !.pttBound = @ \/ v.pushToTalk,
                                   !.reconnect = "none"] IN
                IF v.reconnect = "unmute" THEN setMutedOn(j, FALSE) ELSE j]
    /\ UNCHANGED <<ServerVars, player>>

setMuted(muted) ==
    /\ Len(client.voice.up) < MaxInFlight
    /\ client' = [client EXCEPT !.voice = setMutedOn(@, muted)]
    /\ UNCHANGED <<ServerVars, player>>

toggleMute ==
    IF client.voice.pushToTalk
    THEN UNCHANGED vars
    ELSE setMuted(~client.voice.isMuted)

\* what the server does with one message of the socket, the handler's awaits
\* on the worker taken in one step except the one of voice:produce
voiceHandled(s, roomId, c, name) ==
    IF name = "voice:join"
    THEN ensurePeer(IF HasSfuRoom(s, roomId) THEN s
                    ELSE createRouterDone(createRouterStart(s, roomId), roomId,
                                          Len(s.routers) + 1),
                    roomId, c)
    ELSE IF name = "voice:create-send-transport"
    THEN createTransportDone(createTransportStart(s, roomId, c, "send"),
                             Len(s.transports) + 1)
    ELSE IF name = "voice:produce" THEN produceStart(s, roomId, c)
    ELSE IF name = "voice:pause-producer" THEN pauseProducer(s, roomId, c)
    ELSE resumeProducer(s, roomId, c)

\* the server handles the oldest message of the socket
MuteServer ==
    /\ client.voice.up # <<>>
    /\ LET name == Head(client.voice.up)
           c == VoiceConn
           r == getUserRoom(c) IN
       /\ r # None
       /\ name = "voice:produce" => pending = {}
       /\ sfu' = voiceHandled(sfu, r, c, name)
       /\ rooms' = IF name = "voice:join"
                   THEN [rooms EXCEPT ![r].voiceUsers = @ \cup {c}]
                   ELSE rooms
       /\ pending' = IF name = "voice:produce"
                     THEN pending \cup {Pend(name, c, r, Len(sfu.producers) + 1)}
                     ELSE pending
       /\ client' = [client EXCEPT
             !.voice.up = Tail(@),
             !.voice.down = IF name \in {"voice:join", "voice:create-send-transport"}
                            THEN Append(@, name) ELSE @]
       /\ out' = <<>>
       /\ last' = Op(name, c, None, "")
    /\ UNCHANGED <<userRooms, open, endedProcessing, endedTimers, heartbeatDue,
                   now, nextItemId, fetches, endedAt, snapSeq, player>>

\* sendTransport.produce has answered on the server: peer.producer is set and
\* the handler acknowledges
MuteServerProduced(p) ==
    /\ p \in pending
    /\ p.op = "voice:produce"
    /\ sfu' = produceDone(sfu, p.id)
    /\ pending' = pending \ {p}
    /\ client' = [client EXCEPT !.voice.down = Append(@, "voice:produce")]
    /\ out' = <<Ack(p.conn, p.op, [producerId |-> p.id])>>
    /\ last' = OpPhase(p.op, p.conn, p.id, "", "resume")
    /\ UNCHANGED <<rooms, userRooms, open, endedProcessing, endedTimers,
                   heartbeatDue, now, nextItemId, fetches, endedAt, snapSeq, player>>

NextMute ==
    \/ joinVoiceCall
    \/ joinVoiceAck
    \/ \E muted \in BOOLEAN : setMuted(muted)
    \/ toggleMute
    \/ MuteServer
    \/ \E p \in pending : MuteServerProduced(p)

SpecMute == InitShare /\ [][NextMute]_vars

\* --------------------------- VoiceManager.ts: consume flows of a member
\* client.voice.flows[pr] is where consumeProducer stands for producer pr:
\* "none" (not called), "voice:consume" and "voice:resume-consumer" (suspended
\* on that ack), "done" (returned); consumers holds the producer ids of the
\* entries of the consumers map

\* the manager in voice with device and recv transport, nothing consumed yet
InitConsume ==
    /\ ServerInit
    /\ player = PlayerMounted(<<>>)
    /\ client = [ClientsIdle EXCEPT !.voice.isInVoice = TRUE,
                                    !.voice.stage = "joined"]

\* voice:new-producer, or an entry of existingProducers: consumeProducer runs
\* up to its await of the voice:consume ack
consumeProducerCall(pr) ==
    /\ client.voice.isInVoice
    /\ client.voice.flows[pr] = "none"
    /\ pr \notin client.voice.closedSeen
    /\ client' = [client EXCEPT !.voice.flows[pr] = "voice:consume"]
    /\ UNCHANGED <<ServerVars, player>>

\* the voice:consume ack: null ends the flow, otherwise recvTransport.consume
\* and voice:resume-consumer
consumeProducerAck(pr, params) ==
    /\ client.voice.flows[pr] = "voice:consume"
    /\ client' = [client EXCEPT !.voice.flows[pr] =
                      IF params THEN "voice:resume-consumer" ELSE "done"]
    /\ UNCHANGED <<ServerVars, player>>

\* the voice:resume-consumer ack, whatever it says: the entry is built and
\* this.consumers.set(consumer.id, entry)
consumeProducerResumed(pr) ==
    /\ client.voice.flows[pr] = "voice:resume-consumer"
    /\ client' = [client EXCEPT !.voice.flows[pr] = "done",
                                !.voice.consumers = @ \cup {pr}]
    /\ UNCHANGED <<ServerVars, player>>

\* the voice:producer-closed listener: destroyConsumer on the entry of that
\* producer, if the map has one
producerClosed(pr) ==
    /\ client.voice.flows[pr] # "none"
    /\ pr \notin client.voice.closedSeen
    /\ client' = [client EXCEPT !.voice.consumers = @ \ {pr},
                                !.voice.closedSeen = @ \cup {pr}]
    /\ UNCHANGED <<ServerVars, player>>

NextConsume ==
    \E pr \in RemoteProducers :
        \/ consumeProducerCall(pr)
        \/ \E params \in BOOLEAN : consumeProducerAck(pr, params)
        \/ consumeProducerResumed(pr)
        \/ producerClosed(pr)

SpecConsume == InitConsume /\ [][NextConsume]_vars

\* departures of sockets that are in voice, produce and share their screen
NextDeparture ==
    \/ Lifecycle(1..2, {1})
    \/ Screen(1..2)
    \/ VoiceMembership(1..2)
    \/ CreateTransport(1, "send")
    \/ \E p \in pending : CreateTransportResume(p)
    \/ Produce(1, TRUE)
    \/ \E p \in pending : ProduceResume(p)

SpecDeparture == Init /\ [][NextDeparture]_vars

\* one socket consuming, two sockets asking to resume consumers
NextConsumer ==
    \/ Lifecycle(1..2, {1})
    \/ VoiceMembership(1..2)
    \/ \E direction \in {"send", "recv"} : CreateTransport(1, direction)
    \/ \E p \in pending : CreateTransportResume(p)
    \/ Produce(1, TRUE)
    \/ \E pid \in 1..MaxProducers : Consume(1, pid, TRUE)
    \/ \E p \in pending : ProduceResume(p) \/ ConsumeResume(p)
    \/ \E c \in 1..2, cid \in 1..MaxConsumers : ResumeConsumer(c, cid)
    \/ \E p \in pending : ResumeConsumerResume(p)

SpecConsumer == Init /\ [][NextConsumer]_vars

\* every event that carries an ack, one socket, one room code
NextAck ==
    \/ Lifecycle({1}, {1})
    \/ VoiceMembership({1})
    \/ VoiceTransports({1})
    \/ VoiceMedia({1})

SpecAck == Init /\ [][NextAck]_vars

\* two sockets in one room code, both joining and leaving voice, the first one
\* going through the handshake up to producing and consuming
NextVoiceRoom ==
    \/ Lifecycle(1..2, {1})
    \/ VoiceMembership(1..2)
    \/ \E direction \in {"send", "recv"} : CreateTransport(1, direction)
    \/ \E p \in pending : CreateTransportResume(p)
    \/ Produce(1, TRUE)
    \/ \E pid \in 1..MaxProducers : Consume(1, pid, TRUE)
    \/ \E p \in pending : ProduceResume(p) \/ ConsumeResume(p)
    \/ \E cid \in 1..MaxConsumers : ProducerCloseNotify(cid)

SpecVoiceRoom == Init /\ [][NextVoiceRoom]_vars

\* ------------------------------------------------------------ properties
SeqOps == {"video:load", "video:play", "video:pause", "video:seek", "video:rate",
           "video:ended", "queue:play", "queue:play-next"}

\* the room of the socket that sent the event handled in this step
SenderRoom == IF last'.conn \in Conns THEN getUserRoom(last'.conn) ELSE None

Count(evs, name) == Len(SelectSeq(evs, LAMBDA e : e.ev = name))

\* index of the first event with the given name, 0 if there is none
IndexOf(evs, name) ==
    IF \E i \in 1..Len(evs) : evs[i].ev = name
    THEN CHOOSE i \in 1..Len(evs) :
            evs[i].ev = name /\ \A j \in 1..(i - 1) : evs[j].ev # name
    ELSE 0

VideoFields(room) ==
    <<room.videoId, room.videoUrl, room.videoType, room.isPlaying, room.currentTime,
      room.lastSyncTime, room.playbackRate, room.seq>>

\* C1: the seq of the live snapshots (video:load, video:state-update) of a room
\* is strictly increasing; every applied load, play, pause, seek, rate,
\* ended-advance, queue:play and queue:play-next increases room.seq by exactly
\* 1 and emits one live snapshot carrying the new seq; no step decreases seq.
C1_SeqStrictlyIncreasing ==
    [][ /\ \A r \in DOMAIN rooms \cap DOMAIN rooms' : rooms'[r].seq >= rooms[r].seq
        /\ (last'.op \in SeqOps /\ SenderRoom # None) =>
              LET r == SenderRoom
                  snaps == LiveSnapshots(out') IN
              /\ \A i \in 1..Len(snaps) : snaps[i].data.seq > snapSeq[r]
              /\ rooms'[r] # rooms[r] =>
                    /\ rooms'[r].seq = rooms[r].seq + 1
                    /\ Len(snaps) = 1
                    /\ snaps[1].data.seq = rooms'[r].seq ]_vars

C1_Witness ==
    /\ last.op = "queue:play-next"
    /\ LiveSnapshots(out) # <<>>
    /\ \E r \in DOMAIN rooms : rooms[r].seq >= 3 /\ snapSeq[r] = rooms[r].seq

\* C2: a video:play received while the room is playing, or a video:pause
\* received while it is paused, emits nothing and leaves the video state
\* (isPlaying, currentTime, lastSyncTime, playbackRate, seq) unchanged.
C2_EchoSuppressed ==
    [][ (/\ SenderRoom # None
         /\ \/ last'.op = "video:play" /\ rooms[SenderRoom].isPlaying
            \/ last'.op = "video:pause" /\ ~rooms[SenderRoom].isPlaying)
        => /\ out' = <<>>
           /\ VideoFields(rooms'[SenderRoom]) = VideoFields(rooms[SenderRoom]) ]_vars

C2_Witness ==
    /\ last.op = "video:play"
    /\ out = <<>>
    /\ getUserRoom(last.conn) # None
    /\ LET room == rooms[getUserRoom(last.conn)] IN
       /\ room.isPlaying
       /\ room.lastSyncTime < now
       /\ Cardinality(Members(room)) = 2
       /\ room.hostId # last.conn

\* C3: video:rate(r), received while the room is playing, re-anchors before it
\* changes the rate: currentTime becomes the effective position at the time of
\* the event, lastSyncTime becomes now, playbackRate becomes r and seq
\* increases by 1, so that the effective position at that instant is the same
\* before and after the event.
C3_RateReanchors ==
    [][ (/\ last'.op = "video:rate"
         /\ SenderRoom # None
         /\ rooms[SenderRoom].isPlaying) =>
            LET before == rooms[SenderRoom]
                after == rooms'[SenderRoom] IN
            /\ after.currentTime = effectivePosition(before, now)
            /\ after.lastSyncTime = now
            /\ after.playbackRate = last'.arg
            /\ after.seq = before.seq + 1
            /\ effectivePosition(after, now) = effectivePosition(before, now) ]_vars

\* C4: while less than ENDED_LOCK_MS have passed since a video:ended advanced
\* the queue of a room, every further video:ended of that room changes nothing
\* and emits nothing; a video:ended that advances the queue pops exactly the
\* head item, broadcasts exactly one video:load and increases seq by 1.
C4_EndedOncePerWindow ==
    [][ (last'.op = "video:ended" /\ SenderRoom # None) =>
            LET r == SenderRoom IN
            IF endedAt[r] >= 0 /\ now < endedAt[r] + ENDED_LOCK_MS
            THEN rooms'[r] = rooms[r] /\ out' = <<>>
            ELSE rooms'[r] # rooms[r] =>
                    /\ rooms[r].queue # <<>>
                    /\ rooms'[r].queue = Tail(rooms[r].queue)
                    /\ Count(out', "video:load") = 1
                    /\ rooms'[r].seq = rooms[r].seq + 1 ]_vars

C4_Witness ==
    /\ last.op = "video:ended"
    /\ out = <<>>
    /\ getUserRoom(last.conn) # None
    /\ LET r == getUserRoom(last.conn) IN
       /\ rooms[r].queue # <<>>
       /\ endedAt[r] >= 0
       /\ endedAt[r] < now
       /\ now < endedAt[r] + ENDED_LOCK_MS
       /\ Cardinality(Members(rooms[r])) >= 2

\* C5: a heartbeat tick changes no room state, and every heartbeat snapshot
\* carries the current seq of the room it is broadcast to.
C5_HeartbeatReadOnly ==
    [][ last'.op = "heartbeat" =>
            /\ rooms' = rooms
            /\ \A i \in 1..Len(out') :
                  /\ out'[i].ev = "video:heartbeat"
                  /\ \E r \in DOMAIN rooms :
                        /\ out'[i].to = Members(rooms[r])
                        /\ out'[i].data.seq = rooms[r].seq ]_vars

C5_Witness ==
    /\ last.op = "heartbeat"
    /\ Count(out, "video:heartbeat") = 1
    /\ \E r \in DOMAIN rooms : rooms[r].seq >= 2

\* C6: in every reachable state, also when a participant disconnects or leaves
\* while its voice:join is suspended on the creation of the router, the
\* voiceUsers of a room are a subset of the room's participants.
C6_VoiceUsersAreParticipants ==
    \A r \in DOMAIN rooms : rooms[r].voiceUsers \subseteq Members(rooms[r])

\* C7: a room's screenSharerId is null or the id of one of its participants;
\* when the sharer leaves or disconnects the sharer id is cleared and
\* screen:stopped is emitted before room:user-left.
C7_SharerIsParticipant ==
    /\ [](\A r \in DOMAIN rooms :
            rooms[r].screenSharerId \in Members(rooms[r]) \cup {None})
    /\ [][ (/\ last'.op \in {"room:leave", "disconnect"}
            /\ SenderRoom # None
            /\ rooms[SenderRoom].screenSharerId = last'.conn)
           => /\ SenderRoom \in DOMAIN rooms' => rooms'[SenderRoom].screenSharerId = None
              /\ IndexOf(out', "screen:stopped") > 0
              /\ IndexOf(out', "screen:stopped") < IndexOf(out', "room:user-left") ]_vars

C7_Witness ==
    /\ last.op = "disconnect"
    /\ IndexOf(out, "screen:stopped") > 0
    /\ \E r \in DOMAIN rooms :
          /\ last.conn \notin out[IndexOf(out, "room:user-left")].to
          /\ rooms[r].screenSharerId = None
          /\ Cardinality(Members(rooms[r])) >= 1
          /\ out[IndexOf(out, "screen:stopped")].to = Members(rooms[r])

\* C8: every room with at least one participant has a hostId that is the id
\* of one of its participants.
C8_HostIsParticipant ==
    \A r \in DOMAIN rooms :
        Len(rooms[r].users) >= 1 => rooms[r].hostId \in Members(rooms[r])

C8_Witness ==
    /\ last.op \in {"room:leave", "disconnect"}
    /\ IndexOf(out, "room:host-changed") > 0
    /\ \E r \in DOMAIN rooms :
          /\ rooms[r].hostId \in Members(rooms[r])
          /\ last.conn \notin Members(rooms[r])
          /\ out[IndexOf(out, "room:host-changed")].data.hostId = rooms[r].hostId

\* C9: when the host leaves or disconnects and others remain, the
\* earliest-joined remaining participant becomes the host, room:host-changed
\* with that id is emitted after room:user-left, and the video state, the queue
\* and the remaining participants (with their join order) are unchanged.
C9_HostTransfer ==
    [][ (/\ last'.op \in {"room:leave", "disconnect"}
         /\ SenderRoom # None
         /\ rooms[SenderRoom].hostId = last'.conn
         /\ Len(rooms[SenderRoom].users) >= 2)
        => LET r == SenderRoom
               rest == SeqWithout(rooms[r].users, last'.conn) IN
           /\ r \in DOMAIN rooms'
           /\ rooms'[r].hostId = rest[1]
           /\ rooms'[r].users = rest
           /\ VideoFields(rooms'[r]) = VideoFields(rooms[r])
           /\ rooms'[r].queue = rooms[r].queue
           /\ Count(out', "room:user-left") = 1
           /\ Count(out', "room:host-changed") = 1
           /\ IndexOf(out', "room:user-left") < IndexOf(out', "room:host-changed")
           /\ out'[IndexOf(out', "room:host-changed")].data.hostId = rest[1] ]_vars

C9_Witness ==
    /\ last.op = "disconnect"
    /\ IndexOf(out, "room:host-changed") > IndexOf(out, "room:user-left")
    /\ \E r \in DOMAIN rooms :
          /\ Len(rooms[r].users) = 2
          /\ rooms[r].users[1] > rooms[r].users[2]
          /\ rooms[r].hostId = rooms[r].users[1]
          /\ rooms[r].seq >= 1
          /\ rooms[r].queue # <<>>

AckOps == {"room:create", "room:join", "queue:add", "voice:join",
           "voice:create-send-transport", "voice:create-recv-transport",
           "voice:connect-transport", "voice:produce", "voice:consume",
           "voice:resume-consumer"}

\* C10: when the handler of an event that carries an ack has run to its end
\* (at once, or after the call it awaited has answered or failed), it has
\* invoked the callback exactly once, whether or not the sender is in a room.
C10_AckExactlyOnce ==
    (last.op \in AckOps /\ last.phase \in {"done", "resume"}) => Count(out, "ack") = 1

\* the connection has been disconnected and none of its handlers is suspended
Gone(c) == c \notin open /\ \A p \in pending : p.conn # c

\* the connection has a peer in some SFU room, or an open transport (and with
\* it possibly producers and consumers) on some router
HasSfuState(c) ==
    \/ \E r \in DOMAIN sfu.rooms : c \in DOMAIN sfu.rooms[r].peers
    \/ \E t \in DOMAIN sfu.transports :
          sfu.transports[t].conn = c /\ sfu.transports[t].state = "open"

\* C11: once the disconnect of a connection has been handled and every handler
\* suspended for it has finished, the connection has no peer in any SFU room
\* and no open transport, producer or consumer, whichever step of the voice
\* handshake it had reached.
C11_DisconnectTearsDown == \A c \in Conns : Gone(c) => ~HasSfuState(c)

\* C12: an SFU room is closed and removed as soon as its peer set becomes
\* empty (no SFU room has an empty peer set, and a router that no SFU room
\* holds is not open), it is never closed while a peer remains (the router
\* of an SFU room is open), and no SFU room remains for a room code whose room
\* has no participants.
C12_SfuRoomLifetime ==
    /\ \A r \in DOMAIN sfu.rooms :
          /\ DOMAIN sfu.rooms[r].peers # {}
          /\ sfu.routers[sfu.rooms[r].router].state = "open"
          /\ Live(r) /\ Members(rooms[r]) # {}
    /\ \A rid \in DOMAIN sfu.routers :
          sfu.routers[rid].state = "open" =>
              \E r \in DOMAIN sfu.rooms : sfu.rooms[r].router = rid

CloseRank(kind) == IF kind = "consumer" THEN 1 ELSE IF kind = "producer" THEN 2 ELSE 3

\* the mediasoup objects of the given kind with these ids are all closed
AllClosed(s, kind, ids) ==
    \A i \in ids :
        IF kind = "consumer" THEN s.consumers[i].state = "closed"
        ELSE IF kind = "producer" THEN s.producers[i].state = "closed"
        ELSE s.transports[i].state = "closed"

\* C13: when a voice member sends voice:leave, leaves the room or disconnects,
\* the server closes the consumers of its peer, then its producer, then its
\* transports, removes the peer and takes it out of voiceUsers; it emits one
\* voice:user-left to the other room members, followed by one
\* voice:producer-closed with the id of the departing connection and of its
\* producer if and only if the peer had a producer; neither event goes to the
\* departing connection.
C13_VoiceTeardown ==
    [][ (/\ last'.op \in {"voice:leave", "room:leave", "disconnect"}
         /\ SenderRoom # None
         /\ last'.conn \in rooms[SenderRoom].voiceUsers) =>
        LET r == SenderRoom
            c == last'.conn
            others == Members(rooms[r]) \ {c}
            rp == removePeer(sfu, r, c)
            had == IF HasPeer(sfu, r, c) THEN sfu.rooms[r].peers[c].producer ELSE None
            left == IndexOf(out', "voice:user-left")
            closed == IndexOf(out', "voice:producer-closed") IN
        /\ \A i, j \in 1..Len(rp.closed) :
              i < j => CloseRank(rp.closed[i].kind) <= CloseRank(rp.closed[j].kind)
        /\ \A i \in 1..Len(rp.closed) : AllClosed(sfu', rp.closed[i].kind, rp.closed[i].ids)
        /\ ~HasPeer(sfu', r, c)
        /\ r \in DOMAIN rooms' => c \notin rooms'[r].voiceUsers
        /\ Count(out', "voice:user-left") = 1
        /\ out'[left].to = others
        /\ out'[left].data = [userId |-> c]
        /\ Count(out', "voice:producer-closed") = IF had # None THEN 1 ELSE 0
        /\ had # None =>
              /\ closed > left
              /\ out'[closed].to = others
              /\ out'[closed].data = [socketId |-> c, producerId |-> had] ]_vars

C13_Witness ==
    /\ last.op = "disconnect"
    /\ last.conn = 1
    /\ Count(out, "voice:producer-closed") = 1
    /\ out[IndexOf(out, "voice:user-left")].to = {2}
    /\ \E t1, t2 \in DOMAIN sfu.transports :
          /\ t1 # t2
          /\ sfu.transports[t1].conn = 1 /\ sfu.transports[t1].state = "closed"
          /\ sfu.transports[t2].conn = 1 /\ sfu.transports[t2].state = "closed"
          /\ sfu.transports[t1].direction = "send"
          /\ sfu.transports[t2].direction = "recv"
    /\ \E k \in DOMAIN sfu.consumers : sfu.consumers[k].state = "closed"
    /\ 1 \in DOMAIN sfu.rooms /\ DOMAIN sfu.rooms[1].peers = {2}

\* the open producers that the connection has on the router of the SFU room
OpenProducersOf(s, r, x) ==
    {p \in DOMAIN s.producers :
        /\ s.producers[p].state = "open"
        /\ s.transports[s.producers[p].transport].conn = x
        /\ s.transports[s.producers[p].transport].router = s.rooms[r].router}

\* C14: the existingProducers of a voice:join ack name only other peers of the
\* caller's SFU room, each with one of its open producers, at most once each,
\* and name every other peer that has an open producer at that moment.
C14_ExistingProducers ==
    [][ (last'.op = "voice:join" /\ Count(out', "ack") = 1) =>
        LET c == last'.conn
            list == out'[IndexOf(out', "ack")].data.val.existingProducers IN
        \E r \in DOMAIN sfu'.rooms :
            /\ c \in DOMAIN sfu'.rooms[r].peers
            /\ \A e \in list :
                  /\ e.socketId # c
                  /\ e.socketId \in DOMAIN sfu'.rooms[r].peers
                  /\ e.producerId \in OpenProducersOf(sfu', r, e.socketId)
                  /\ \A e2 \in list : e2.socketId = e.socketId => e2 = e
            /\ \A x \in DOMAIN sfu'.rooms[r].peers \ {c} :
                  OpenProducersOf(sfu', r, x) # {} => \E e \in list : e.socketId = x ]_vars

C14_Witness ==
    /\ last.op = "voice:join"
    /\ last.conn = 2
    /\ Count(out, "ack") = 1
    /\ out[IndexOf(out, "ack")].data.val.existingProducers =
          {[socketId |-> 1, producerId |-> 1]}
    /\ sfu.producers[1].state = "open"

\* C15: voice:new-producer naming X is emitted only in X's own voice:produce,
\* after the ack to X that carries the same producer id, to the other
\* members of the room and never to X; a voice:produce emits it once when its
\* ack carries a producer id and not at all when it carries null, and no other
\* event (voice:join among them) emits it.
C15_NewProducer ==
    [][ LET acks == IndexOf(out', "ack")
            news == IndexOf(out', "voice:new-producer") IN
        /\ news > 0 =>
              LET ev == out'[news]
                  x == last'.conn IN
              /\ last'.op = "voice:produce"
              /\ Count(out', "voice:new-producer") = 1
              /\ ev.data.socketId = x
              /\ acks > 0 /\ acks < news
              /\ out'[acks].to = {x}
              /\ out'[acks].data.val.producerId = ev.data.producerId
              /\ ev.data.producerId # None
              /\ x \notin ev.to
              /\ ev.to = Group(sfu'.transports[
                              sfu'.producers[ev.data.producerId].transport].room) \ {x}
        /\ (last'.op = "voice:produce" /\ acks > 0) =>
              (news > 0 <=> out'[acks].data.val.producerId # None) ]_vars

C15_Witness ==
    /\ last.op = "voice:produce"
    /\ last.conn = 1
    /\ IndexOf(out, "ack") = 1
    /\ IndexOf(out, "voice:new-producer") = 2
    /\ out[2].to = {2}
    /\ out[2].data.producerId = out[1].data.val.producerId

NextPlayer ==
    \/ SnapshotArrives
    \/ RemoteLockTimeout
    \/ DriftTick

\* every timer and every delivery of the client eventually happens
SpecPlayer ==
    /\ InitPlayer
    /\ [][NextPlayer]_vars
    /\ WF_vars(SnapshotArrives)
    /\ WF_vars(RemoteLockTimeout)
    /\ WF_vars(DriftTick)

NextPlayerHeartbeat ==
    \/ SnapshotArrives_part006
    \/ \E hb \in Snapshots : HeartbeatArrives(hb)
    \/ RemoteLockTimeout

SpecPlayerHeartbeat == InitPlayer /\ [][NextPlayerHeartbeat]_vars

LatestSnapshot == player.sent[Len(player.sent)]

Applied(snap) ==
    /\ player.paused = ~snap.isPlaying
    /\ player.playbackRate = snap.playbackRate
    /\ player.currentTime = snap.currentTime

\* C16: for a finite run of snapshots delivered in order, the player
\* eventually has the snapshot with the highest seq applied: its play/pause
\* state, rate and position are those of that snapshot.
C16_EventuallyLatest == <>Applied(LatestSnapshot)

\* C17: a screen:start sent while the room's screenSharerId is set answers
\* with one error event to the sender alone, leaves screenSharerId as it was
\* and emits neither screen:started nor screen:viewer-joined.
C17_SecondShareRejected ==
    [][ (/\ last'.op = "screen:start"
         /\ SenderRoom # None
         /\ rooms[SenderRoom].screenSharerId # None)
        => /\ out' = <<Ev("error", {last'.conn}, NoData)>>
           /\ rooms'[SenderRoom].screenSharerId = rooms[SenderRoom].screenSharerId
           /\ Count(out', "screen:started") = 0
           /\ Count(out', "screen:viewer-joined") = 0 ]_vars

C17_Witness ==
    /\ last.op = "screen:start"
    /\ IndexOf(out, "error") = 1
    /\ getUserRoom(last.conn) # None
    /\ rooms[getUserRoom(last.conn)].screenSharerId \notin {None, last.conn}

\* the screen:viewer-joined events of evs that name viewer v
ViewerJoined(evs, v) ==
    SelectSeq(evs, LAMBDA e : e.ev = "screen:viewer-joined" /\ e.data.viewerId = v)

\* C18: a screen:start that begins a share sends screen:started once, to the
\* members other than the sharer, and sends the sharer exactly one
\* screen:viewer-joined for each of them and none naming itself; a room:join
\* into a room with an active share sends the sharer exactly one
\* screen:viewer-joined naming the joiner; no other step emits either event.
C18_ViewerNotices ==
    [][ LET c == last'.conn
            started == SelectSeq(out', LAMBDA e : e.ev = "screen:started") IN
        IF last'.op = "screen:start" /\ SenderRoom # None
           /\ rooms[SenderRoom].screenSharerId = None
        THEN LET others == Members(rooms[SenderRoom]) \ {c} IN
             /\ Len(started) = 1
             /\ started[1].to = others
             /\ started[1].data.sharerId = c
             /\ \A v \in others :
                   /\ Len(ViewerJoined(out', v)) = 1
                   /\ ViewerJoined(out', v)[1].to = {c}
             /\ Count(out', "screen:viewer-joined") = Cardinality(others)
        ELSE IF last'.op = "room:join" /\ Live(last'.arg)
                /\ rooms[last'.arg].screenSharerId # None
        THEN /\ Len(started) = 0
             /\ Count(out', "screen:viewer-joined") = 1
             /\ Len(ViewerJoined(out', c)) = 1
             /\ ViewerJoined(out', c)[1].to = {rooms[last'.arg].screenSharerId}
             /\ c # rooms[last'.arg].screenSharerId
        ELSE /\ Len(started) = 0
             /\ Count(out', "screen:viewer-joined") = 0 ]_vars

C18_Witness ==
    /\ last.op = "room:join"
    /\ Live(last.arg)
    /\ Cardinality(Members(rooms[last.arg])) = 3
    /\ rooms[last.arg].screenSharerId # None
    /\ Len(ViewerJoined(out, last.conn)) = 1
    /\ ViewerJoined(out, last.conn)[1].to = {rooms[last.arg].screenSharerId}

\* C19: a queue never holds more than 50 items; a queue:add sent while the
\* sender's queue holds 50 answers with an error ack, leaves the queue as it
\* was and emits no queue:update.
C19_QueueCapacity ==
    /\ [](\A r \in DOMAIN rooms : Len(rooms[r].queue) <= QUEUE_MAX)
    /\ [][ (/\ last'.op = "queue:add"
             /\ SenderRoom # None
             /\ Len(rooms[SenderRoom].queue) = QUEUE_MAX)
            => /\ out' = <<Ack(last'.conn, "queue:add", AddErr)>>
               /\ rooms'[SenderRoom].queue = rooms[SenderRoom].queue
               /\ Count(out', "queue:update") = 0 ]_vars

C19_Witness ==
    /\ last.op = "queue:add"
    /\ last.url = DirectUrl
    /\ out = <<Ack(last.conn, "queue:add", AddErr)>>
    /\ Len(rooms[1].queue) = QUEUE_MAX

\* C20: a participant that leaves a room and at once joins a room again gets
\* a participant id different from the one it had, and no room lists the old
\* id as participant, voice user, screen sharer or host.
C20_FreshIdOnRejoin ==
    [][ (/\ last.op = "room:leave"
         /\ IndexOf(out, "room:user-left") > 0
         /\ last'.op = "room:join"
         /\ last'.conn = last.conn
         /\ out'[IndexOf(out', "ack")].data.val.success)
        => LET old == out[IndexOf(out, "room:user-left")].data.userId IN
           /\ out'[IndexOf(out', "ack")].data.val.userId # old
           /\ \A r \in DOMAIN rooms' :
                 /\ old \notin Members(rooms'[r])
                 /\ old \notin rooms'[r].voiceUsers
                 /\ old # rooms'[r].screenSharerId
                 /\ old # rooms'[r].hostId ]_vars

\* C21: handling the departure of a connection that has already left its room
\* (a disconnect or a second room:leave after a room:leave) emits nothing and
\* changes no room, membership, SFU or suspended-handler state, so that
\* room:user-left, the leave message, voice:user-left and room:host-changed
\* of one departure are emitted once at most.
C21_DepartureIdempotent ==
    [][ (/\ last'.op \in {"room:leave", "disconnect"}
         /\ getUserRoom(last'.conn) = None)
        => /\ out' = <<>>
           /\ UNCHANGED <<rooms, userRooms, sfu, pending, fetches>> ]_vars

C21_Witness ==
    /\ last.op = "disconnect"
    /\ last.conn = 1
    /\ out = <<>>
    /\ Live(1)
    /\ rooms[1].users = <<2>>
    /\ rooms[1].hostId = 2
    /\ 1 \in rooms[1].voiceUsers

OpenTransportsOf(c, direction) ==
    {t \in DOMAIN sfu.transports :
        /\ sfu.transports[t].conn = c
        /\ sfu.transports[t].direction = direction
        /\ sfu.transports[t].state = "open"}

OpenProducersBy(c) ==
    {p \in DOMAIN sfu.producers :
        /\ sfu.producers[p].state = "open"
        /\ sfu.transports[sfu.producers[p].transport].conn = c}

\* C22: whatever transports a participant has created and whatever it has
\* produced, at most one of its send transports, at most one of its receive
\* transports and at most one of its producers is open.
C22_OneOfEach ==
    \A c \in Conns :
        /\ Cardinality(OpenTransportsOf(c, "send")) <= 1
        /\ Cardinality(OpenTransportsOf(c, "recv")) <= 1
        /\ Cardinality(OpenProducersBy(c)) <= 1

OpenRoutersOf(r) ==
    {rid \in DOMAIN sfu.routers :
        sfu.routers[rid].room = r /\ sfu.routers[rid].state = "open"}

\* C23: a room code never has more than one open router, and a voice:join
\* step keeps every SFU room with its router and with every peer that was
\* registered in it before the step.
C23_OneRouterNoPeerLost ==
    /\ [](\A r \in RoomIds : Cardinality(OpenRoutersOf(r)) <= 1)
    /\ [][ last'.op = "voice:join"
            => \A r \in DOMAIN sfu.rooms :
                  /\ r \in DOMAIN sfu'.rooms
                  /\ sfu'.rooms[r].router = sfu.rooms[r].router
                  /\ DOMAIN sfu.rooms[r].peers \subseteq DOMAIN sfu'.rooms[r].peers ]_vars

\* C24: a video:load whose URL is neither a YouTube link nor a direct video
\* sends one error event to the sender alone and leaves the sender's room as
\* it was (seq, video id, url, type, isPlaying, currentTime, lastSyncTime and
\* everything else); no video:load and no chat message is emitted.
C24_BadUrlRejected ==
    [][ (/\ last'.op = "video:load"
         /\ detectVideoType(last'.url) = "null"
         /\ SenderRoom # None)
        => /\ out' = <<Ev("error", {last'.conn}, NoData)>>
           /\ rooms'[SenderRoom] = rooms[SenderRoom] ]_vars

C24_Witness ==
    /\ last.op = "video:load"
    /\ last.url = BadUrl
    /\ out = <<Ev("error", {last.conn}, NoData)>>
    /\ getUserRoom(last.conn) # None
    /\ LET room == rooms[getUserRoom(last.conn)] IN
       /\ room.videoUrl = YtUrl
       /\ room.seq >= 1
       /\ Cardinality(Members(room)) = 2

\* C25: video:seek from a participant is applied whether the room is playing
\* or paused: currentTime becomes the reported position, lastSyncTime becomes
\* now, seq increases by 1, everything else (isPlaying and playbackRate among
\* it) is unchanged, and one video:state-update carrying that state goes to
\* all members, the sender included.
C25_SeekAlwaysApplied ==
    [][ (/\ last'.op = "video:seek"
         /\ SenderRoom # None)
        => LET before == rooms[SenderRoom]
               after == rooms'[SenderRoom] IN
           /\ after = [before EXCEPT !.currentTime = last'.arg,
                                     !.lastSyncTime = now,
                                     !.seq = before.seq + 1]
           /\ Len(out') = 1
           /\ out'[1].ev = "video:state-update"
           /\ out'[1].to = Members(before)
           /\ last'.conn \in out'[1].to
           /\ out'[1].data = getVideoState(after, now) ]_vars

C25_Witness ==
    /\ last.op = "video:seek"
    /\ last.arg = 7
    /\ Len(out) = 1
    /\ getUserRoom(last.conn) # None
    /\ LET room == rooms[getUserRoom(last.conn)] IN
       /\ ~room.isPlaying
       /\ room.videoUrl # ""
       /\ room.currentTime = 7
       /\ room.lastSyncTime = now
       /\ now > 0
       /\ room.hostId # last.conn
       /\ out[1].to = Members(room)
       /\ Cardinality(Members(room)) = 2

\* the rooms a heartbeat tick has to serve
HeartbeatDueFor(room) ==
    /\ Cardinality(Members(room)) >= 2
    /\ room.videoId # "" \/ room.videoUrl # ""
    /\ room.isPlaying

\* C26: a heartbeat tick emits video:heartbeat events only, one to the members
\* of each room that has at least two participants, a loaded video and
\* isPlaying true, carrying that room's snapshot, and none for any other room.
C26_HeartbeatCondition ==
    [][ last'.op = "heartbeat" =>
            /\ Len(out') = Cardinality({r \in DOMAIN rooms : HeartbeatDueFor(rooms[r])})
            /\ \A i \in 1..Len(out') :
                  /\ out'[i].ev = "video:heartbeat"
                  /\ \E r \in DOMAIN rooms :
                        /\ HeartbeatDueFor(rooms[r])
                        /\ out'[i].to = Members(rooms[r])
                        /\ out'[i].data = getVideoState(rooms[r], now)
            /\ \A r \in DOMAIN rooms :
                  HeartbeatDueFor(rooms[r]) =>
                      \E i \in 1..Len(out') : out'[i].to = Members(rooms[r]) ]_vars

C26_Witness ==
    /\ last.op = "heartbeat"
    /\ out = <<>>
    /\ \E r \in DOMAIN rooms :
          /\ Cardinality(Members(rooms[r])) = 2
          /\ rooms[r].isPlaying
          /\ rooms[r].videoId = ""
          /\ rooms[r].videoUrl = ""

DepartureOrder ==
    <<"voice:user-left", "voice:producer-closed", "screen:stopped",
      "room:user-left", "chat:message", "room:host-changed">>

ConsumerOwner(s, k) == s.transports[s.consumers[k].transport].conn

\* C28: a consumer is paused when voice:consume creates it and stays paused
\* until a voice:resume-consumer of the connection that owns it, naming it,
\* completes; a voice:resume-consumer naming an id that is not in the
\* caller's own consumer set is acked resumed:false and changes nothing.
C28_ConsumerResume ==
    [][ /\ \A k \in DOMAIN sfu'.consumers :
              IF k \notin DOMAIN sfu.consumers
              THEN /\ sfu'.consumers[k].paused
                   /\ last'.op = "voice:consume"
              ELSE (sfu.consumers[k].paused /\ ~sfu'.consumers[k].paused)
                   => /\ last'.op = "voice:resume-consumer"
                      /\ last'.arg = k
                      /\ last'.conn = ConsumerOwner(sfu, k)
        /\ (/\ last'.op = "voice:resume-consumer"
            /\ last'.phase = "done"
            /\ \/ SenderRoom = None
               \/ ~HasPeer(sfu, SenderRoom, last'.conn)
               \/ last'.arg \notin sfu.rooms[SenderRoom].peers[last'.conn].consumers)
           => /\ out' = <<Ack(last'.conn, "voice:resume-consumer", [resumed |-> FALSE])>>
              /\ UNCHANGED <<sfu, rooms, pending>> ]_vars

C28_Witness ==
    /\ last.op = "voice:resume-consumer"
    /\ last.conn = 2
    /\ out = <<Ack(2, "voice:resume-consumer", [resumed |-> FALSE])>>
    /\ HasPeer(sfu, 1, 1) /\ HasPeer(sfu, 1, 2)
    /\ last.arg \in sfu.rooms[1].peers[1].consumers
    /\ sfu.consumers[last.arg].state = "open"
    /\ sfu.consumers[last.arg].paused

PlayerFields(pl) == <<pl.currentTime, pl.paused, pl.playbackRate>>

\* C29: a snapshot, live or heartbeat, that reaches the player with a seq not
\* above the last seq the player applied leaves the player's position,
\* play/pause state and rate as they were, and the last applied seq never
\* decreases (one video source, page visible throughout).
C29_StaleSnapshotDiscarded ==
    [][ /\ (/\ player'.inbox # player.inbox
            /\ Head(player.inbox).seq <= player.lastProcessedSeq)
           => PlayerFields(player') = PlayerFields(player)
        /\ (/\ player'.heartbeat # player.heartbeat
            /\ player'.heartbeat.seq <= player.lastProcessedSeq)
           => PlayerFields(player') = PlayerFields(player)
        /\ player'.lastProcessedSeq >= player.lastProcessedSeq ]_vars

\* C30: a video:ended handled for a room with a non-empty queue and no ended
\* lock removes exactly the head of the queue (the rest keeps its order), makes
\* it the current video, playing at position 0, takes the lock, and sends
\* video:load before queue:update to the room; a video:ended for a room with
\* an empty queue changes no state, sends nothing and takes no lock.
C30_EndedAdvancesQueue ==
    [][ (/\ last'.op = "video:ended"
         /\ SenderRoom # None)
        => LET r == SenderRoom
               before == rooms[r]
               after == rooms'[r] IN
           /\ (Len(before.queue) > 0 /\ r \notin endedProcessing)
              => /\ after = [before EXCEPT
                                !.queue = Tail(before.queue),
                                !.videoId = Head(before.queue).videoId,
                                !.videoUrl = Head(before.queue).videoUrl,
                                !.videoType = IF Head(before.queue).videoId # ""
                                              THEN "youtube" ELSE "direct",
                                !.isPlaying = TRUE,
                                !.currentTime = 0,
                                !.lastSyncTime = now,
                                !.seq = before.seq + 1]
                 /\ r \in endedProcessing'
                 /\ Len(out') >= 2
                 /\ out'[1] = Ev("video:load", Members(before), getVideoState(after, now))
                 /\ out'[2] = Ev("queue:update", Members(before), [queue |-> after.queue])
                 /\ \A i \in 3..Len(out') : out'[i].ev = "chat:message"
           /\ Len(before.queue) = 0
              => /\ rooms' = rooms
                 /\ out' = <<>>
                 /\ endedProcessing' = endedProcessing
                 /\ endedTimers' = endedTimers ]_vars

C30_Witness ==
    /\ last.op = "video:ended"
    /\ getUserRoom(last.conn) # None
    /\ LET room == rooms[getUserRoom(last.conn)] IN
       /\ Len(room.queue) = 1
       /\ room.isPlaying
       /\ room.currentTime = 0
       /\ room.lastSyncTime = now
       /\ room.seq >= 1
    /\ getUserRoom(last.conn) \in endedProcessing
    /\ Len(out) >= 2
    /\ out[1].ev = "video:load"
    /\ out[2].ev = "queue:update"
    /\ Len(out[2].data.queue) = 1

\* C31: every ended lock that is held has its release timer pending, due no
\* later than ENDED_LOCK_MS after now; the step that takes the lock of a room
\* arms the timer for now + ENDED_LOCK_MS and the timer's callback releases the
\* lock; a video:ended for a room whose lock is not held and whose queue is not
\* empty advances the queue, whatever other rooms' locks are held.
C31_LockReleased ==
    [][ /\ \A r \in endedProcessing' :
              \E tm \in endedTimers' : /\ tm.room = r
                                       /\ now' <= tm.due
                                       /\ tm.due <= now' + ENDED_LOCK_MS
        /\ \A r \in endedProcessing' \ endedProcessing :
              [room |-> r, due |-> now + ENDED_LOCK_MS] \in endedTimers'
        /\ \A tm \in endedTimers \ endedTimers' :
              /\ tm.due = now
              /\ tm.room \notin endedProcessing'
        /\ (/\ last'.op = "video:ended"
            /\ SenderRoom # None
            /\ SenderRoom \notin endedProcessing
            /\ rooms[SenderRoom].queue # <<>>)
           => /\ rooms'[SenderRoom].queue = Tail(rooms[SenderRoom].queue)
              /\ SenderRoom \in endedProcessing' ]_vars

\* a room advances its queue while the lock of another live room is held
C31_Witness ==
    /\ last.op = "video:ended"
    /\ out # <<>>
    /\ getUserRoom(last.conn) # None
    /\ LET r == getUserRoom(last.conn) IN
       /\ endedAt[r] = now
       /\ \E r2 \in DOMAIN rooms \ {r} :
             /\ r2 \in endedProcessing
             /\ endedAt[r2] >= 0
             /\ endedAt[r2] < now

\* what a successful room:join sends, but for the hostId of room:state: the
\* ack first, then room:state to the joiner listing the existing members and
\* the joiner, and one room:user-joined naming the joiner to the members that
\* were there before, none to the joiner
JoinNotices(before, c, evs) ==
    /\ Len(evs) >= 3
    /\ evs[1] = Ack(c, "room:join", [success |-> TRUE, userId |-> c])
    /\ evs[2].ev = "room:state"
    /\ evs[2].to = {c}
    /\ evs[2].data.users = Append(before.users, c)
    /\ Count(evs, "room:state") = 1
    /\ Count(evs, "room:user-joined") = 1
    /\ \A i \in 1..Len(evs) :
          evs[i].ev = "room:user-joined"
          => /\ evs[i].to = Members(before)
             /\ c \notin evs[i].to
             /\ evs[i].data = [user |-> c]

\* C32 as stated: on a successful room:join the joiner gets its ack and then a
\* room:state listing the joiner and the existing members and naming the
\* creator of the room as hostId; every other member gets exactly one
\* room:user-joined for the joiner and the joiner none.
C32_CreatorIsHost ==
    [][ (last'.op = "room:join" /\ Live(last'.arg))
        => /\ JoinNotices(rooms[last'.arg], last'.conn, out')
           /\ out'[2].data.hostId = RoomCreator ]_vars

\* C32 as amended: the same, with room:state naming the current host of the
\* room as hostId, a member that was in the room before the join (the creator
\* until the creator first leaves).
C32_JoinState ==
    [][ (last'.op = "room:join" /\ Live(last'.arg))
        => /\ JoinNotices(rooms[last'.arg], last'.conn, out')
           /\ out'[2].data.hostId = rooms[last'.arg].hostId
           /\ out'[2].data.hostId \in Members(rooms[last'.arg]) ]_vars

\* a third socket joins a room whose creator has left
C32_Witness ==
    /\ last.op = "room:join"
    /\ Len(out) >= 3
    /\ out[2].ev = "room:state"
    /\ Len(out[2].data.users) = 2
    /\ out[2].data.hostId # RoomCreator
    /\ out[3].ev = "room:user-joined"
    /\ out[3].to = {out[2].data.hostId}

\* the k-th router created is on worker k mod NumWorkers, counting from 0
RoundRobin == \A k \in 1..Len(sfu.routers) : sfu.routers[k].worker = (k - 1) % NumWorkers

\* C33: routers are assigned to workers round-robin, and every WebRTC transport
\* is created on the WebRtcServer of the worker that owns the router of its
\* room (WebRtcServer i belongs to worker i).
C33_TransportOnRouterWorker ==
    /\ RoundRobin
    /\ \A t \in 1..Len(sfu.transports) :
          sfu.transports[t].server = sfu.routers[sfu.transports[t].router].worker

\* C34: a screen:offer, screen:answer or screen:ice-candidate is delivered,
\* with from set to the sender and the payload as sent, to at most one
\* connection, and only to a participant of the sender's own room; it reaches
\* no member of another room and no whole room, and changes no server state.
C34_RelayWithinRoom ==
    [][ last'.op \in RelayNames
        => /\ UNCHANGED <<rooms, userRooms, open, sfu, pending, fetches,
                          endedProcessing, endedTimers, nextItemId>>
           /\ \A i \in 1..Len(out') :
                 /\ out'[i].ev = last'.op
                 /\ out'[i].data = [from |-> last'.conn, payload |-> last'.url]
                 /\ Cardinality(out'[i].to) <= 1
                 /\ \A d \in out'[i].to :
                       /\ getUserRoom(last'.conn) # None
                       /\ getUserRoom(d) = getUserRoom(last'.conn) ]_vars

\* the server has handled every screen:start that socket c has emitted
StartHandled(c) == \A i \in 1..Len(client.share[c].up) : client.share[c].up[i] # "screen:start"

\* C35: a manager that reports isSharing once the server has handled its
\* screen:start is the sharer the server has recorded for its room; so at most
\* one manager per room reports isSharing then.
C35_SharerAgrees ==
    \A c \in ShareConns :
        (client.share[c].isSharing /\ StartHandled(c) /\ getUserRoom(c) # None)
        => rooms[getUserRoom(c)].screenSharerId = c

\* the server-side producer of socket c, None when it has none
ServerProducer(c) ==
    LET r == getUserRoom(c) IN
    IF r # None /\ HasPeer(sfu, r, c) THEN sfu.rooms[r].peers[c].producer ELSE None

\* C36: whenever the manager is muted and the server has handled everything
\* the manager has emitted, the participant's producer on the server is paused.
C36_MutedIsPaused ==
    (/\ client.voice.isInVoice
     /\ client.voice.isMuted
     /\ client.voice.up = <<>>
     /\ pending = {}
     /\ ServerProducer(VoiceConn) # None)
    => sfu.producers[ServerProducer(VoiceConn)].paused

\* C37: once the manager has handled voice:producer-closed for a producer and
\* no consume flow for it is still in flight, its consumers map holds no
\* consumer of that producer.
C37_NoConsumerOfClosed ==
    \A pr \in RemoteProducers :
        (pr \in client.voice.closedSeen /\ client.voice.flows[pr] \in {"none", "done"})
        => pr \notin client.voice.consumers


\* --------------------------------------- VoiceManager.ts (push-to-talk)
\* client.voice.held is the set of keys the user holds down; the handlers are
\* attached to the window only while pttBound

leaveVoice ==
    /\ client.voice.stage = "joined"
    /\ Len(client.voice.up) < MaxInFlight
    /\ client' = [client EXCEPT !.voice = leaveVoiceOn(@)]
    /\ UNCHANGED <<ServerVars, player>>

\* joinVoice's catch block after a failed step: isInVoice = false
joinVoiceFailed ==
    /\ client.voice.down # <<>>
    /\ client.voice.stage \notin {"idle", "joined"}
    /\ client' = [client EXCEPT !.voice.down = Tail(@),
                                !.voice.isInVoice = FALSE,
                                !.voice.stage = "idle",
                                !.voice.producer = "none",
                                !.voice.reconnect = "none"]
    /\ UNCHANGED <<ServerVars, player>>

reconnectWithNewSettings(v) ==
    IF ~v.isInVoice THEN v
    ELSE LET wasMuted == v.isMuted IN
         joinVoiceOn([leaveVoiceOn(v) EXCEPT
                          !.reconnect = IF wasMuted THEN "muted" ELSE "unmute"])

\* the partial settings updateSettings is called with; "keep" is a field
\* left undefined
SettingsChanges ==
    [pushToTalk : {"keep", "on", "off"},
     pushToTalkKey : {"keep"} \cup Keys,
     audioQuality : {"keep", "changed"}]

updateSettingsOn(v, new) ==
    LET oldPTT == v.pushToTalk
        v1 == [v EXCEPT !.pushToTalk = IF new.pushToTalk = "keep" THEN @
                                       ELSE new.pushToTalk = "on",
                        !.pushToTalkKey = IF new.pushToTalkKey = "keep" THEN @
                                          ELSE new.pushToTalkKey]
        v2 == IF new.pushToTalk # "keep" /\ v1.pushToTalk # oldPTT
              THEN IF v1.pushToTalk THEN bindPTT(setMutedOn(v1, TRUE))
                   ELSE unbindPTT(v1)
              ELSE v1
    IN IF new.audioQuality = "changed" THEN reconnectWithNewSettings(v2)
       ELSE v2

\* a reconnect is explored only from outside a running joinVoice
updateSettings(new) ==
    /\ Len(client.voice.up) < MaxInFlight
    /\ new.audioQuality = "changed" => client.voice.stage \in {"idle", "joined"}
    /\ client' = [client EXCEPT !.voice = updateSettingsOn(@, new)]
    /\ UNCHANGED <<ServerVars, player>>

\* the user presses a key; typing: the focus is in an input or a textarea
keyDown(key, typing) ==
    /\ key \notin client.voice.held
    /\ Len(client.voice.up) < MaxInFlight
    /\ LET v == [client.voice EXCEPT !.held = @ \cup {key}] IN
       client' = [client EXCEPT !.voice =
                     IF v.pttBound THEN handlePTTDown(v, key, typing) ELSE v]
    /\ UNCHANGED <<ServerVars, player>>

keyUp(key) ==
    /\ key \in client.voice.held
    /\ Len(client.voice.up) < MaxInFlight
    /\ LET v == [client.voice EXCEPT !.held = @ \ {key}] IN
       client' = [client EXCEPT !.voice =
                     IF v.pttBound THEN handlePTTUp(v, key) ELSE v]
    /\ UNCHANGED <<ServerVars, player>>

windowBlur ==
    /\ client.voice.pttBound
    /\ Len(client.voice.up) < MaxInFlight
    /\ client' = [client EXCEPT !.voice = handlePTTBlur(@)]
    /\ UNCHANGED <<ServerVars, player>>

\* the server takes the next message off the socket and acknowledges the
\* three joinVoice waits for
VoiceAcked ==
    /\ client.voice.up # <<>>
    /\ LET m == Head(client.voice.up) IN
       client' = [client EXCEPT
           !.voice.up = Tail(@),
           !.voice.down =
               IF m \in {"voice:join", "voice:create-send-transport",
                         "voice:produce"}
               THEN Append(@, m) ELSE @]
    /\ UNCHANGED <<ServerVars, player>>

NextPTT ==
    \/ joinVoiceCall
    \/ joinVoiceAck
    \/ joinVoiceFailed
    \/ leaveVoice
    \/ \E muted \in BOOLEAN : setMuted(muted)
    \/ toggleMute
    \/ \E new \in SettingsChanges : updateSettings(new)
    \/ \E key \in Keys, typing \in BOOLEAN : keyDown(key, typing)
    \/ \E key \in Keys : keyUp(key)
    \/ windowBlur
    \/ VoiceAcked

SpecPTT == InitShare /\ [][NextPTT]_vars

\* C38: whenever push-to-talk is enabled, the client is in voice and the
\* push-to-talk key is not held down, the manager is muted
C38_PushToTalkMuted ==
    (/\ client.voice.pushToTalk
     /\ client.voice.isInVoice
     /\ client.voice.pushToTalkKey \notin client.voice.held)
        => client.voice.isMuted


\* ------------------------------------------- title lookup against the queue
\* two sockets add links to the queues of their rooms, edit and play them and
\* come and go while title lookups are under way
NextTitle ==
    \/ Lifecycle(1..2, RoomIds)
    \/ \E c \in 1..2, url \in {YtUrl, DirectUrl} : QueueAdd(c, url)
    \/ QueueEdit(1..2)
    \/ QueuePlayback(1..2)
    \/ TitleFetched

SpecTitle == Init /\ [][NextTitle]_vars

\* the queue with every title blanked: its items, in their order
Untitled(queue) == [i \in 1..Len(queue) |-> [queue[i] EXCEPT !.title = ""]]

\* C39: when the title lookup of a queued item completes, no room changes
\* except that the item, if it is still in the queue of its room, gets the
\* title: the queue keeps its items and their order, every other field of the
\* room (video state and seq among them) stays, and exactly one event leaves,
\* a queue:update with the current queue of the room the item was added to
C39_TitleOnly ==
    [][\A f \in fetches :
          (fetches' = fetches \ {f} /\ last'.op = "fetch:done")
              => /\ DOMAIN rooms' = DOMAIN rooms
                 /\ \A r \in DOMAIN rooms :
                       /\ [rooms'[r] EXCEPT !.queue = <<>>]
                              = [rooms[r] EXCEPT !.queue = <<>>]
                       /\ Untitled(rooms'[r].queue) = Untitled(rooms[r].queue)
                       /\ \A i \in 1..Len(rooms[r].queue) :
                             rooms'[r].queue[i] # rooms[r].queue[i]
                                 => /\ r = f.room
                                    /\ ~f.orphan
                                    /\ rooms[r].queue[i].id = f.item
                                    /\ rooms'[r].queue[i].title = last'.url
                 /\ Len(out') = 1
                 /\ out'[1].ev = "queue:update"
                 /\ ~f.orphan => /\ out'[1].data.queue = rooms'[f.room].queue
                                 /\ out'[1].to = Members(rooms'[f.room])
                 /\ f.orphan => Untitled(out'[1].data.queue) = Untitled(f.queue)
                 /\ UNCHANGED <<userRooms, snapSeq, endedProcessing>>]_vars

\* a lookup has completed for an item that had left the queue of its room,
\* which still holds another item
C39_Witness ==
    /\ last.op = "fetch:done"
    /\ Len(out) = 1
    /\ out[1].to # {}
    /\ out[1].data.queue # <<>>
    /\ \A i \in 1..Len(out[1].data.queue) : out[1].data.queue[i].id # last.arg


\* ---------------------------------- the player under the viewer's hands
NextPlayerInput ==
    \/ SnapshotArrives
    \/ RemoteLockTimeout
    \/ DriftTick
    \/ UserPlays
    \/ UserPauses
    \/ \E pos \in Positions : UserSeeks(pos)
    \/ PlayDebounceFires
    \/ PauseDebounceFires

\* the player mounted, with one snapshot on its way
InitPlayerInput ==
    /\ ServerInit
    /\ player \in {PlayerMounted(q) : q \in {x \in SnapshotSeqs : Len(x) = 1}}
    /\ client = ClientsIdle

SpecPlayerInput == InitPlayerInput /\ [][NextPlayerInput]_vars

\* C40: while the remote-update lock is held the player calls none of onPlay,
\* onPause and onSeek, whenever the event behind the call happened
C40_LockedForwardsNothing ==
    [][player.isRemoteUpdate => player'.called = player.called]_vars

====
